---- MODULE Spec2Model ----
(***************************************************************************)
(* Ladybug "Photovoltaics Surface" component                               *)
(* (src/src/Ladybug_Photovoltaics Surface.py).                             *)
(*                                                                         *)
(* The component is a straight-line script: it resolves the surface input, *)
(* the location, aligns the hourly weather series, prepares the auxiliary  *)
(* datasets, filters the weather through the conditional statement,        *)
(* resolves the angles and runs the hour-by-hour simulation.  Each Python  *)
(* function is an operator that returns what the function returns (or the  *)
(* exception it raises); each call of the script is one action.            *)
(*                                                                         *)
(* Encoding of Python values                                               *)
(*   None            the empty tuple <<>>                                  *)
(*   optional input  <<>> (nothing plugged in) or <<v>>                    *)
(*   list            a sequence                                            *)
(*   float           an exact rational <<n, d>>, d > 0, in lowest terms    *)
(*   str in a list   an integer code (EmptyString, HeaderItem(k))          *)
(***************************************************************************)
EXTENDS Integers, Sequences, FiniteSets, TLC

VARIABLES
    input,      \* the component's input sockets (never written)
    addZero,    \* the addZero argument the caller gives checkConditionalStatement
    pc,         \* the call the script makes next, or how it ended
    printMsg,   \* the printMsg of the last call
    exception,  \* the uncaught Python exception, <<>> if none
    surface,    \* what PVsurfaceInputData returned
    location,   \* what getLocationData returned
    weather,    \* what getWeatherData returned
    annual,     \* what checkAnnualHourlyInputData returned
    cond,       \* what checkConditionalStatement returned
    angles,     \* srfAzimuthD, surfaceTiltDCalculated, correctedSrfAzimuthD, northDeg, srfTiltD
    result,     \* what radiation_ACenergy returned
    printed     \* what the script printed or added as a runtime message

vars == <<input, addZero, pc, printMsg, exception, surface, location, weather,
          annual, cond, angles, result, printed>>

None == <<>>
Some(v) == <<v>>
\* no exception was raised
NoException == ""

(***************************************************************************)
(* Numbers.  A float is an exact rational.                                 *)
(***************************************************************************)
Abs(x) == IF x < 0 THEN -x ELSE x

RECURSIVE Gcd(_, _)
Gcd(a, b) == IF b = 0 THEN a ELSE Gcd(b, a % b)

Rat(n, d) ==
    LET s == IF d < 0 THEN -1 ELSE 1
        g == Gcd(Abs(n), Abs(d))
    IN  <<(s * n) \div g, (s * d) \div g>>

Lcm(a, b) == (a \div Gcd(a, b)) * b
RatAdd(x, y) ==
    LET l == Lcm(x[2], y[2])
    IN  Rat(x[1] * (l \div x[2]) + y[1] * (l \div y[2]), l)
RatMul(x, y) == Rat(x[1] * y[1], x[2] * y[2])
RatDivInt(x, k) == Rat(x[1], x[2] * k)
RatLt(x, y) == x[1] * y[2] < y[1] * x[2]
RatOfInt(k) == <<k, 1>>

(***************************************************************************)
(* Hourly series.  An "Import epw" output is a 7-item header followed by   *)
(* the 8760 hourly values; the strings of the header are integer codes.    *)
(***************************************************************************)
HoursPerYear == 8760
HeaderLen == 7
WithHeaderLen == 8767
EmptyString == -9999
HeaderItem(k) == -9000 - k

MaxValue == 3
WrongLen == 100

\* the value of hour h (1..8760) of a series of pattern p
HourValue(p, h) ==
    CASE p = "uniform" -> 2
      [] p = "varied"  -> h % (MaxValue + 1)
      [] p = "halfday" -> IF ((h - 1) % 24) < 12 THEN 0 ELSE MaxValue
      [] p = "seasonal" -> (h \div 1000) % (MaxValue + 1)
      [] p = "year"    -> 2015

Header == [k \in 1..HeaderLen |-> HeaderItem(k)]

\* a raw input list of n items: the header first when withHeader
RawSeries(p, n, withHeader) ==
    IF withHeader
    THEN [j \in 1..n |-> IF j <= HeaderLen THEN HeaderItem(j) ELSE HourValue(p, j - HeaderLen)]
    ELSE [j \in 1..n |-> HourValue(p, j)]

\* list[7:]
StripHeader(x) == IF Len(x) <= HeaderLen THEN <<>> ELSE SubSeq(x, HeaderLen + 1, Len(x))

RECURSIVE Repeat(_, _)
\* block * n
Repeat(block, n) ==
    IF n = 0 THEN <<>>
    ELSE IF n = 1 THEN block
    ELSE Repeat(block, n \div 2) \o Repeat(block, n - (n \div 2))

(***************************************************************************)
(* Python 2 numbers: an int is <<n>>, a float is <<n, d>>.  int / int is   *)
(* floor division; any other division or product is a float.               *)
(***************************************************************************)
IsInt(x) == Len(x) = 1
AsRat(x) == IF IsInt(x) THEN RatOfInt(x[1]) ELSE x
NumLt(x, y) == RatLt(AsRat(x), AsRat(y))
NumEq(x, y) == AsRat(x) = AsRat(y)
NumIsZero(x) == x[1] = 0
NumMul(x, y) ==
    IF IsInt(x) /\ IsInt(y) THEN <<x[1] * y[1]>> ELSE RatMul(AsRat(x), AsRat(y))
\* x / y for y # 0
NumDiv(x, y) ==
    IF IsInt(x) /\ IsInt(y) THEN <<x[1] \div y[1]>>
    ELSE LET a == AsRat(x)
             b == AsRat(y)
         IN  Rat(a[1] * b[2], a[2] * b[1])
NumAdd(x, y) ==
    IF IsInt(x) /\ IsInt(y) THEN <<x[1] + y[1]>> ELSE RatAdd(AsRat(x), AsRat(y))
NumSub(x, y) ==
    IF IsInt(x) /\ IsInt(y) THEN <<x[1] - y[1]>>
    ELSE RatAdd(AsRat(x), RatMul(<<-1, 1>>, AsRat(y)))
NumAbs(x) == IF x[1] < 0 THEN [x EXCEPT ![1] = -x[1]] ELSE x
\* float(x)
Float(x) == AsRat(x)

(***************************************************************************)
(* getWeatherData (TimeSeriesAligner)                                      *)
(***************************************************************************)
\* (len(x) == 0) or (x[0] is "")
NotPlugged(x) == Len(x) = 0 \/ x[1] = EmptyString

WeatherFail(msg) ==
    [raise |-> NoException, Ta |-> None, ws |-> None, DNI |-> None, DHI |-> None,
     yearsHOY |-> None, monthsHOY |-> None, daysHOY |-> None, hoursHOY |-> None,
     HOYs |-> None, albedo |-> None, validWeatherData |-> FALSE, printMsg |-> msg]

\* the if/elif pair of lines 252-271: the local is assigned only for the two lengths
AlignAssigns(x) == Len(x) = WithHeaderLen \/ Len(x) = HoursPerYear
Align(x) == IF Len(x) = WithHeaderLen THEN StripHeader(x) ELSE x

numberOfDaysMonth == <<31, 28, 31, 30, 31, 30, 31, 31, 30, 31, 30, 31>>

\* monthsHOY with the lengths of March and April exchanged
monthsHOY_AprilFirst ==
    Repeat(<<1>>, 744) \o Repeat(<<2>>, 672) \o Repeat(<<3>>, 720) \o Repeat(<<4>>, 744)
    \o Repeat(<<5>>, 744) \o Repeat(<<6>>, 720) \o Repeat(<<7>>, 744) \o Repeat(<<8>>, 744)
    \o Repeat(<<9>>, 720) \o Repeat(<<10>>, 744) \o Repeat(<<11>>, 720) \o Repeat(<<12>>, 744)

monthsHOY ==
    Repeat(<<1>>, 744) \o Repeat(<<2>>, 672) \o Repeat(<<3>>, 744) \o Repeat(<<4>>, 720)
    \o Repeat(<<5>>, 744) \o Repeat(<<6>>, 720) \o Repeat(<<7>>, 744) \o Repeat(<<8>>, 744)
    \o Repeat(<<9>>, 720) \o Repeat(<<10>>, 744) \o Repeat(<<11>>, 720) \o Repeat(<<12>>, 744)

RECURSIVE DaysOfMonthLoop(_)
\* the list the "for k in range(item)" loop has appended after k rounds (day starts at 1)
DaysOfMonthLoop(k) ==
    IF k = 0 THEN <<>> ELSE DaysOfMonthLoop(k - 1) \o Repeat(<<k>>, 24)

RECURSIVE DaysLoop(_)
\* daysHOY after the first m months
DaysLoop(m) ==
    IF m = 0 THEN <<>> ELSE DaysLoop(m - 1) \o DaysOfMonthLoop(numberOfDaysMonth[m])

daysHOY == DaysLoop(Len(numberOfDaysMonth))

\* the inner loop appends hour = 1..24, then hour is reset to 1; 365 rounds
hoursHOY == Repeat([k \in 1..24 |-> k], 365)

\* range(1, 8761)
HOYs == [j \in 1..HoursPerYear |-> j]

DefaultAlbedo == <<1, 5>>

getWeatherData(dryBulbTemperature, windSpeed, directNormalRadiation, diffuseHorizontalRadiation, modelYear, albedo) ==
    IF NotPlugged(dryBulbTemperature) THEN WeatherFail("Please input _dryBulbTemperature")
    ELSE IF NotPlugged(windSpeed) THEN WeatherFail("Please input _windSpeed")
    ELSE IF NotPlugged(directNormalRadiation) THEN WeatherFail("Please input _directNormalRadiation")
    ELSE IF NotPlugged(diffuseHorizontalRadiation) THEN WeatherFail("Please input _diffuseHorizontalRadiation")
    ELSE IF NotPlugged(modelYear) THEN WeatherFail("Please input _modelYear")
    ELSE IF \E x \in {dryBulbTemperature, windSpeed, directNormalRadiation,
                      diffuseHorizontalRadiation, modelYear} : ~AlignAssigns(x)
    THEN \* Ta, ws, DNI, DHI or yearsHOY was never assigned: the return statement raises
         [WeatherFail("") EXCEPT !.raise = "UnboundLocalError"]
    ELSE [raise |-> NoException,
          Ta |-> Align(dryBulbTemperature), ws |-> Align(windSpeed),
          DNI |-> Align(directNormalRadiation), DHI |-> Align(diffuseHorizontalRadiation),
          yearsHOY |-> Align(modelYear),
          monthsHOY |-> monthsHOY, daysHOY |-> daysHOY, hoursHOY |-> hoursHOY, HOYs |-> HOYs,
          albedo |-> IF albedo = None \/ NumLt(albedo, <<0>>) \/ NumLt(<<1>>, albedo)
                     THEN DefaultAlbedo ELSE albedo,
          validWeatherData |-> TRUE, printMsg |-> "ok"]

(***************************************************************************)
(* getLocationData.  _location is None or what decomposeLocation makes of  *)
(* it: [ok |-> FALSE] when it raises, else the decomposed fields.          *)
(***************************************************************************)
LocationFail(msg) ==
    [latitude |-> None, longitude |-> None, timeZone |-> None, elevation |-> None,
     locationName |-> None, validLocationData |-> FALSE, printMsg |-> msg]

getLocationData(loc) ==
    IF loc = None THEN LocationFail("Please input location")
    ELSE IF ~loc.ok THEN LocationFail("Something is wrong with _location input.")
    ELSE [latitude |-> loc.latitude, longitude |-> loc.longitude, timeZone |-> loc.timeZone,
          elevation |-> loc.elevation, locationName |-> loc.locationName,
          validLocationData |-> TRUE, printMsg |-> "ok"]

(***************************************************************************)
(* PVsurfaceInputData (InputResolver).  _PVsurface is None or a record:    *)
(*   kind     "brep" (rs.coercegeometry gives a Brep) or "str"             *)
(*   faces    obj.Faces.Count, area  AreaMassProperties.Compute(obj).Area  *)
(*   asFloat  float(PVsurface), None when float() raises                   *)
(*   hasKw    "kw" in PVsurface.lower()                                    *)
(*   kwFloat  float(lowerString.replace("kw","")), None when it raises     *)
(*   geom     what the geometry collaborator derives from the surface      *)
(***************************************************************************)
SurfaceFail(msg) ==
    [raise |-> NoException, PVsurfaceInputType |-> None, nameplateDCpowerRating |-> None,
     srfArea |-> None, activeArea |-> None, PVsurfacePercent |-> None,
     DCtoACderateFactor |-> None, moduleActiveAreaPercent |-> None, moduleType |-> None,
     moduleEfficiency |-> None, validPVsurfaceData |-> FALSE, printMsg |-> msg]

SurfaceRaise(e) == [SurfaceFail("") EXCEPT !.raise = e]

OrDefault_EndsExcluded(x, lo, hi, default) ==
    IF x = None \/ ~NumLt(lo, x) \/ ~NumLt(x, hi) THEN default ELSE x

\* (x == None) or (x < lo) or (x > hi) -> default
OrDefault(x, lo, hi, default) ==
    IF x = None \/ NumLt(x, lo) \/ NumLt(hi, x) THEN default ELSE x

DefaultDerate == <<17, 20>>

\* lines 180-187 and 192-199: area * (percent/100), the active area and the rating
FromArea(type, area, pct, unitAreaConversionFactor, derate, active, mtype, eff) ==
    LET srfArea == NumMul(NumMul(area, NumDiv(pct, <<100>>)), unitAreaConversionFactor)
        activeArea == NumMul(srfArea, NumDiv(active, <<100>>))
        rating == NumMul(activeArea, NumMul(<<1>>, NumDiv(eff, <<100>>)))
    IN  [raise |-> NoException, PVsurfaceInputType |-> type, nameplateDCpowerRating |-> rating,
         srfArea |-> srfArea, activeArea |-> activeArea, PVsurfacePercent |-> pct,
         DCtoACderateFactor |-> derate, moduleActiveAreaPercent |-> active,
         moduleType |-> mtype, moduleEfficiency |-> eff,
         validPVsurfaceData |-> TRUE, printMsg |-> "ok"]

\* lines 207-213: the rating from the "kw" literal, the areas derived from it
FromRating(kw, pct, derate, active, mtype, eff) ==
    LET rating == NumMul(kw, NumDiv(pct, <<100>>))
        effFraction == NumMul(<<1>>, NumDiv(eff, <<100>>))
    IN  IF NumIsZero(effFraction) \/ NumIsZero(active) THEN SurfaceRaise("ZeroDivisionError")
        ELSE LET activeArea == NumDiv(rating, effFraction)
                 srfArea == NumMul(activeArea, NumDiv(<<100>>, active))
             IN  [raise |-> NoException, PVsurfaceInputType |-> "number",
                  nameplateDCpowerRating |-> rating,
                  srfArea |-> srfArea, activeArea |-> activeArea, PVsurfacePercent |-> pct,
                  DCtoACderateFactor |-> derate, moduleActiveAreaPercent |-> active,
                  moduleType |-> mtype, moduleEfficiency |-> eff,
                  validPVsurfaceData |-> TRUE, printMsg |-> "ok"]

PVsurfaceInputData(PVsurface, PVsurfacePercent, unitAreaConversionFactor, DCtoACderateFactor, moduleActiveAreaPercent, moduleType, moduleEfficiency) ==
    IF PVsurface = None THEN SurfaceFail("Please input Surface (not polysurface) to _PVsurface")
    ELSE
    LET pct    == OrDefault(PVsurfacePercent, <<0>>, <<100>>, <<100>>)
        derate == OrDefault(DCtoACderateFactor, <<0>>, <<1>>, DefaultDerate)
        active == OrDefault(moduleActiveAreaPercent, <<0>>, <<100>>, <<90>>)
        mtype  == OrDefault(moduleType, <<0>>, <<3>>, <<0>>)
        eff    == OrDefault(moduleEfficiency, <<0>>, <<100>>, <<15>>)
    IN  IF PVsurface.kind = "brep"
        THEN IF PVsurface.faces > 1
             THEN SurfaceFail("The brep you supplied to _PVsurface is a polysurface")
             ELSE FromArea("brep", PVsurface.area, pct, unitAreaConversionFactor,
                           derate, active, mtype, eff)
        ELSE IF PVsurface.asFloat # None
             THEN FromArea("number", PVsurface.asFloat, pct, unitAreaConversionFactor,
                           derate, active, mtype, eff)
        ELSE IF PVsurface.hasKw
             THEN IF PVsurface.kwFloat = None THEN SurfaceRaise("ValueError")
                  ELSE FromRating(PVsurface.kwFloat, pct, derate, active, mtype, eff)
        ELSE SurfaceFail("Something is wrong with your PVsurface input data")

(***************************************************************************)
(* checkAnnualHourlyInputData.  The function returns a 4-tuple which the   *)
(* script unpacks by position, so the tuple is kept in the order of the    *)
(* return statement; its items are tagged Python values.                   *)
(***************************************************************************)
PyNone == [t |-> "None"]
PyBool(b) == [t |-> "bool", v |-> b]
PyList(l) == [t |-> "list", v |-> l]
PyStr(x) == [t |-> "str", v |-> x]
\* if x:
Truthy(x) ==
    CASE x.t = "None" -> FALSE
      [] x.t = "bool" -> x.v
      [] x.t = "list" -> x.v # <<>>
      [] x.t = "str"  -> x.v # ""

Chunk_FromTheStart(annualHourlyData, i) == SubSeq(annualHourlyData, 1, WithHeaderLen)

\* annualHourlyData[startIndex:endIndex] of round i (1-based)
Chunk(annualHourlyData, i) ==
    SubSeq(annualHourlyData, (i - 1) * WithHeaderLen + 1, i * WithHeaderLen)

checkAnnualHourlyInputData(annualHourlyData) ==
    IF annualHourlyData = <<>>
    THEN <<PyBool(TRUE), PyList(<<>>), PyList(<<>>), PyStr("ok")>>
    ELSE IF Len(annualHourlyData) % WithHeaderLen # 0
    THEN <<PyNone, PyBool(FALSE), PyNone,
           PyStr("Your annualHourlyData_ input is not correct.")>>
    ELSE LET n == Len(annualHourlyData) \div WithHeaderLen
         IN  <<PyBool(TRUE),
               PyList([i \in 1..n |-> StripHeader(Chunk(annualHourlyData, i))]),
               PyList([i \in 1..n |-> Chunk(annualHourlyData, i)[3]]),
               PyStr("ok")>>

(***************************************************************************)
(* The conditional statement.  A statement is a sequence of tokens (words, *)
(* numbers, operators); None is <<>> and a statement s is <<s>>.           *)
(***************************************************************************)
Letters == <<"a", "b", "c", "d", "e", "f", "g", "h", "i", "j", "k", "l", "m",
             "n", "o", "p", "q", "r", "s", "t", "u", "v", "w", "x", "y", "z">>
IsLetter(t) == \E j \in 1..Len(Letters) : Letters[j] = t
LetterIndex(t) == CHOOSE j \in 1..Len(Letters) : Letters[j] = t

LowerTable ==
    ("A" :> "a") @@ ("B" :> "b") @@ ("C" :> "c") @@ ("K" :> "k") @@ ("I" :> "i")
    @@ ("AND" :> "and") @@ ("OR" :> "or") @@ ("True" :> "true")
\* str.lower(), token by token
Lower(stmt) == [j \in 1..Len(stmt) |-> IF stmt[j] \in DOMAIN LowerTable
                                       THEN LowerTable[stmt[j]] ELSE stmt[j]]
\* re.sub(r"\b([a-z])\b", r"\1[i]", statement)
Indexed(stmt) == [j \in 1..Len(stmt) |-> IF IsLetter(stmt[j]) THEN stmt[j] \o "[i]"
                                         ELSE stmt[j]]

LiteralValue == ("0" :> 0) @@ ("1" :> 1) @@ ("2" :> 2) @@ ("3" :> 3) @@ ("25" :> 25)
CompareOps == {"<", ">", "<=", ">=", "==", "!="}
Reserved == CompareOps \cup {"and", "or", "/"}

RECURSIVE SplitOn(_, _)
\* the segments of toks between the tokens of seps
SplitOn(toks, seps) ==
    IF toks = <<>> THEN << <<>> >>
    ELSE LET rest == SplitOn(Tail(toks), seps)
         IN  IF Head(toks) \in seps THEN << <<>> >> \o rest
             ELSE << <<Head(toks)>> \o rest[1] >> \o Tail(rest)

IsSep(seps, t) == t \in seps
SepsOf(toks, seps) == SelectSeq(toks, LAMBDA t : IsSep(seps, t))

\* an operand is  atom  or  atom / atom
OperandOK(seg) ==
    \/ Len(seg) = 1 /\ seg[1] \notin Reserved
    \/ Len(seg) = 3 /\ seg[1] \notin Reserved /\ seg[2] = "/" /\ seg[3] \notin Reserved
ChainOK(seg) ==
    LET operands == SplitOn(seg, CompareOps)
    IN  \A j \in 1..Len(operands) : OperandOK(operands[j])
AndOK(seg) ==
    LET chains == SplitOn(seg, {"and"})
    IN  \A j \in 1..Len(chains) : ChainOK(chains[j])
\* the statement compiles
SyntaxOK(stmt) ==
    LET alternatives == SplitOn(stmt, {"or"})
    IN  \A j \in 1..Len(alternatives) : AndOK(alternatives[j])

Ok(v) == [err |-> NoException, val |-> v]
Err(e) == [err |-> e, val |-> 0]

\* One name or literal.  vals[j] is the j-th dataset's value at the hour; i is the
\* loop's own hour index (an int), and k is an int once the inner loop has run.
EvalAtom(t, vals, kIsInt) ==
    IF t \in DOMAIN LiteralValue THEN Ok(LiteralValue[t])
    ELSE IF t = "True" THEN Ok(1)
    ELSE IF \E j \in 1..Len(Letters) : t = Letters[j] \o "[i]"
    THEN LET j == CHOOSE j \in 1..Len(Letters) : t = Letters[j] \o "[i]"
         IN  IF Letters[j] = "i" THEN Err("TypeError")
             ELSE IF Letters[j] = "k" /\ kIsInt THEN Err("TypeError")
             ELSE IF j <= Len(vals) THEN Ok(vals[j])
             ELSE Err("NameError")
    ELSE Err("NameError")

\* x / y on ints
Divide(x, y) ==
    IF x.err # NoException THEN x
    ELSE IF y.err # NoException THEN y
    ELSE IF y.val = 0 THEN Err("ZeroDivisionError")
    ELSE Ok(x.val \div y.val)

EvalOperand(seg, vals, kIsInt) ==
    IF Len(seg) = 1 THEN EvalAtom(seg[1], vals, kIsInt)
    ELSE Divide(EvalAtom(seg[1], vals, kIsInt), EvalAtom(seg[3], vals, kIsInt))

Compare(op, x, y) ==
    CASE op = "<"  -> x < y
      [] op = ">"  -> x > y
      [] op = "<=" -> x <= y
      [] op = ">=" -> x >= y
      [] op = "==" -> x = y
      [] op = "!=" -> x # y

RECURSIVE EvalChain(_, _, _, _, _)
RECURSIVE ChainStep(_, _, _, _, _, _)
\* x op1 y op2 z ...: left is the value of operand j, already evaluated
EvalChain(operands, ops, j, left, env) ==
    IF j > Len(ops) THEN Ok(1)
    ELSE ChainStep(operands, ops, j, left, env,
                   EvalOperand(operands[j + 1], env.vals, env.kIsInt))
\* the comparison of operand j with operand j + 1, whose value is right
ChainStep(operands, ops, j, left, env, right) ==
    IF right.err # NoException THEN right
    ELSE IF ~Compare(ops[j], left, right.val) THEN Ok(0)
    ELSE EvalChain(operands, ops, j + 1, right.val, env)

\* a comparison whose first operand has the value first
ChainFrom(operands, ops, first, env) ==
    IF first.err # NoException THEN first
    ELSE IF ops = <<>> THEN first
    ELSE EvalChain(operands, ops, 1, first.val, env)

EvalComparison(seg, env) ==
    ChainFrom(SplitOn(seg, CompareOps), SepsOf(seg, CompareOps),
              EvalOperand(SplitOn(seg, CompareOps)[1], env.vals, env.kIsInt), env)

RECURSIVE EvalAnd(_, _, _)
RECURSIVE AndStep(_, _, _, _)
\* x and y and ...: the first falsy operand ends the evaluation
EvalAnd(segs, j, env) == AndStep(segs, j, env, EvalComparison(segs[j], env))
AndStep(segs, j, env, x) ==
    IF x.err # NoException \/ x.val = 0 \/ j = Len(segs) THEN x
    ELSE EvalAnd(segs, j + 1, env)

RECURSIVE EvalOr(_, _, _)
RECURSIVE OrStep(_, _, _, _)
\* x or y or ...: the first truthy operand ends the evaluation
EvalOr(segs, j, env) == OrStep(segs, j, env, EvalAnd(SplitOn(segs[j], {"and"}), 1, env))
OrStep(segs, j, env, x) ==
    IF x.err # NoException \/ x.val # 0 \/ j = Len(segs) THEN x
    ELSE EvalOr(segs, j + 1, env)

\* exec("conditionalSt = %s" % conditionalStatement)
ExecStatement(stmt, vals, kIsInt) ==
    IF ~SyntaxOK(stmt) THEN Err("SyntaxError")
    ELSE EvalOr(SplitOn(stmt, {"or"}), 1, [vals |-> vals, kIsInt |-> kIsInt])

(***************************************************************************)
(* checkConditionalStatement (ConditionalFilter)                           *)
(***************************************************************************)
CondFail(msg, hour) ==
    [raise |-> NoException, validConditionalStatement |-> FALSE,
     weatherPerHourDataConditionalStatementSubLists |-> None,
     conditionalStatementForFinalPrint |-> None, printMsg |-> msg,
     hoursExecuted |-> hour]

\* the text of a header's data-type item
NameString(code) ==
    CASE code = HeaderItem(3) -> "Dry Bulb Temperature"
      [] code = HeaderItem(3) - 100 -> "Relative Humidity"
      [] code = HeaderItem(3) - 200 -> "Wind Speed"
      [] OTHER -> "data"

\* lines 355-361: the statement with the letters replaced by the datasets' names
ForFinalPrint(stmt, n, epwNames) ==
    IF stmt # <<"True">>
    THEN [p \in 1..Len(stmt) |->
            IF \E j \in 1..n : stmt[p] = Letters[j] \o "[i]"
            THEN NameString(epwNames[CHOOSE j \in 1..n : stmt[p] = Letters[j] \o "[i]"])
            ELSE stmt[p]]
    ELSE <<"No condition">>

\* lines 363-369: the letters whose "x[i]" occurs in the statement
numberOfLetters(stmt) ==
    Cardinality({j \in 1..Len(Letters) : \E p \in 1..Len(stmt) : stmt[p] = Letters[j] \o "[i]"})

RECURSIVE FirstTrue(_, _, _)
\* the least index in lo..hi at which the boolean sequence f holds, 0 if none
FirstTrue(f, lo, hi) ==
    IF lo > hi THEN 0
    ELSE IF lo = hi THEN (IF f[lo] THEN lo ELSE 0)
    ELSE LET mid == (lo + hi) \div 2
             l == FirstTrue(f, lo, mid)
         IN  IF l # 0 THEN l ELSE FirstTrue(f, mid + 1, hi)

\* a list as the loops build it: every item is computed once, when it is appended
List(s) == s \o <<>>

IsTrue(b) == b
Second(pair) == pair[2]
\* the items of x at the hours where keep does not hold
Compact_KeepRejected(x, keep) ==
    LET tagged == [h \in 1..Len(x) |-> <<keep[h], x[h]>>]
        kept == SelectSeq(tagged, LAMBDA pair : ~IsTrue(pair[1]))
    IN  List([j \in 1..Len(kept) |-> Second(kept[j])])
\* the items of x at the hours where keep holds, in order
Compact(x, keep) ==
    LET tagged == [h \in 1..Len(x) |-> <<keep[h], x[h]>>]
        kept == SelectSeq(tagged, LAMBDA pair : IsTrue(pair[1]))
    IN  List([j \in 1..Len(kept) |-> Second(kept[j])])

\* the datasets' values at hour h: a[i], b[i], ...
HourVals(lists, h) == [j \in 1..Len(lists) |-> lists[j][h]]

UsesK(stmt) == \E p \in 1..Len(stmt) : stmt[p] = "k[i]"

\* lines 383-384: the statement's value at every hour.  k is the k-th dataset up
\* to hour firstInner, the hour whose inner loop first rebinds k to an int.
StatementPerHour(stmt, lists, hours, firstInner) ==
    List([h \in 1..hours |-> ExecStatement(stmt, HourVals(lists, h), h > firstInner)])

\* every hour at which the statement has a value passes
Passing_WhateverTheValue(res) == List([h \in 1..Len(res) |-> res[h].err = NoException])

Passing(res) == List([h \in 1..Len(res) |-> res[h].err = NoException /\ res[h].val # 0])
OrElse(f, default) == IF f = 0 THEN default ELSE f

\* lines 385-395: an inner "for k" loop runs at every hour when addZero, and at
\* the hours where the statement holds otherwise
FirstInner(stmt, lists, hours, addZ) ==
    IF ~UsesK(stmt) THEN hours
    ELSE IF addZ THEN 1
    ELSE OrElse(FirstTrue(Passing(StatementPerHour(stmt, lists, hours, hours)), 1, hours),
                hours)

Failed(res) == List([h \in 1..Len(res) |-> res[h].err # NoException])

\* only the first series is masked
Appended_MaskFirstOnly(pass, subLists, addZ) ==
    List([s \in 1..Len(subLists) |->
            IF addZ
            THEN List([h \in 1..Len(pass) |->
                         IF pass[h] \/ s > 1 THEN subLists[s][h] ELSE 0])
            ELSE Compact(subLists[s], pass)])
\* lines 385-395: the hour's values are appended, or 0, or nothing
Appended(pass, subLists, addZ) ==
    List([s \in 1..Len(subLists) |->
            IF addZ THEN List([h \in 1..Len(pass) |-> IF pass[h] THEN subLists[s][h] ELSE 0])
            ELSE Compact(subLists[s], pass)])

\* a failure of the statement is swallowed and the lists filled so far are returned
FilterReturn_PartialResult(firstFailed, out, hours, forFinalPrint) ==
    IF Len(out[1]) = 0
    THEN CondFail("No annualHourlyData_ coresponds to conditionalStatement_.", hours)
    ELSE [raise |-> NoException, validConditionalStatement |-> TRUE,
          weatherPerHourDataConditionalStatementSubLists |-> out,
          conditionalStatementForFinalPrint |-> forFinalPrint,
          printMsg |-> "ok", hoursExecuted |-> hours]
\* lines 396-410
FilterReturn(firstFailed, out, hours, forFinalPrint) ==
    IF firstFailed # 0
    THEN CondFail("Your conditionalStatement_ is incorrect.", firstFailed)
    ELSE IF Len(out[1]) = 0
    THEN CondFail("No annualHourlyData_ coresponds to conditionalStatement_.", hours)
    ELSE [raise |-> NoException, validConditionalStatement |-> TRUE,
          weatherPerHourDataConditionalStatementSubLists |-> out,
          conditionalStatementForFinalPrint |-> forFinalPrint,
          printMsg |-> "ok", hoursExecuted |-> hours]

FilterWith(res, subLists, addZ, forFinalPrint) ==
    FilterReturn(FirstTrue(Failed(res), 1, Len(res)), Appended(Passing(res), subLists, addZ),
                 Len(res), forFinalPrint)

\* lines 376-410: the datasets are bound to a, b, c, ..., the statement is executed
\* for every hour, and the hour's values are appended (or 0, or nothing)
FilterHours(stmt, lists, subLists, addZ, forFinalPrint) ==
    FilterWith(StatementPerHour(stmt, lists, Len(subLists[1]),
                                FirstInner(stmt, lists, Len(subLists[1]), addZ)),
               subLists, addZ, forFinalPrint)

checkConditionalStatement(conditionalStatement, annualHourlyDataLists, annualHourlyDataListsEpwNames, weatherPerHourDataSubLists, addZ) ==
    IF conditionalStatement = None /\ Len(annualHourlyDataLists) > 0
    THEN CondFail("Please supply conditionalStatement_ for inputted annualHourlyData_ data.", 0)
    ELSE IF conditionalStatement # None /\ annualHourlyDataLists = <<>>
    THEN CondFail("Please supply annualHourlyData_ data for inputted conditionalStatement_.", 0)
    ELSE
    LET stmt == IF conditionalStatement = None THEN <<"True">>
                ELSE Indexed(Lower(conditionalStatement[1]))
        n == Len(annualHourlyDataLists)
    IN  IF stmt # <<"True">> /\ n > Len(Letters)
        THEN [CondFail("", 0) EXCEPT !.raise = "IndexError"]
        ELSE IF numberOfLetters(stmt) # n
        THEN CondFail("The number of a,b,c... variables does not correspond to the number of annualHourlyData_ lists.", 0)
        ELSE FilterHours(stmt, annualHourlyDataLists, weatherPerHourDataSubLists, addZ,
                         ForFinalPrint(stmt, n, annualHourlyDataListsEpwNames))

(***************************************************************************)
(* srfAzimuthAngle, srfTiltAngle, correctSrfAzimuthDforNorth               *)
(* (AngleResolver).  The str "needs to be calculated" is a 3-tuple, so it  *)
(* differs from every number.                                              *)
(***************************************************************************)
NeedsToBeCalculated == <<"needs to be calculated", 0, 0>>

AzimuthRaise(e) == [raise |-> e, srfAzimuthD |-> None, surfaceTiltDCalculated |-> None]

\* the if latitude > 0 / elif latitude < 0 pair: no branch assigns at latitude == 0
EquatorFacing(latitude) ==
    IF NumLt(<<0>>, latitude)
    THEN [raise |-> NoException, srfAzimuthD |-> <<180>>, surfaceTiltDCalculated |-> NeedsToBeCalculated]
    ELSE IF NumLt(latitude, <<0>>)
    THEN [raise |-> NoException, srfAzimuthD |-> <<0>>, surfaceTiltDCalculated |-> NeedsToBeCalculated]
    ELSE AzimuthRaise("UnboundLocalError")

srfAzimuthAngle(PVsurfaceAzimuthAngle, PVsurfaceInputType, PVsurface, latitude) ==
    IF PVsurfaceAzimuthAngle # None
    THEN IF NumLt(PVsurfaceAzimuthAngle, <<0>>) \/ NumLt(<<360>>, PVsurfaceAzimuthAngle)
         THEN EquatorFacing(latitude)
         ELSE [raise |-> NoException, srfAzimuthD |-> PVsurfaceAzimuthAngle,
               surfaceTiltDCalculated |-> NeedsToBeCalculated]
    ELSE IF PVsurfaceInputType = "brep"
    THEN \* lb_photovoltaics.srfAzimuthAngle(PVsurface)
         [raise |-> NoException, srfAzimuthD |-> PVsurface.geom.azimuth,
          surfaceTiltDCalculated |-> IF PVsurface.geom.tiltCalculated = None
                                     THEN NeedsToBeCalculated
                                     ELSE PVsurface.geom.tiltCalculated]
    ELSE IF PVsurfaceInputType = "number"
    THEN EquatorFacing(latitude)
    ELSE AzimuthRaise("UnboundLocalError")

TiltRaise(e) == [raise |-> e, srfTiltD |-> None]
TiltIs(v) == [raise |-> NoException, srfTiltD |-> v]

srfTiltAngle(PVsurfaceTiltAngle, surfaceTiltDCalculated, PVsurfaceInputType, PVsurface, latitude) ==
    IF PVsurfaceTiltAngle # None
    THEN IF NumLt(PVsurfaceTiltAngle, <<0>>) THEN TiltIs(<<0>>)
         ELSE IF NumLt(<<180>>, PVsurfaceTiltAngle) THEN TiltIs(<<0>>)
         ELSE TiltIs(PVsurfaceTiltAngle)
    ELSE IF surfaceTiltDCalculated # NeedsToBeCalculated
            /\ (\/ NumEq(surfaceTiltDCalculated, <<0>>)
                \/ NumEq(surfaceTiltDCalculated, <<90>>)
                \/ NumEq(surfaceTiltDCalculated, <<180>>))
    THEN TiltIs(surfaceTiltDCalculated)
    ELSE IF surfaceTiltDCalculated = NeedsToBeCalculated
    THEN IF PVsurfaceInputType = "brep" THEN TiltIs(PVsurface.geom.tilt)
         ELSE IF PVsurfaceInputType = "number" THEN TiltIs(NumAbs(latitude))
         ELSE TiltRaise("UnboundLocalError")
    ELSE TiltRaise("UnboundLocalError")

\* north_ is None, a number, or a vector <<"vector", a, 0>> whose counter-clockwise
\* angle from the Y axis is a degrees (0 <= a < 360)
IsVector(north) == Len(north) = 3

\* The returned tuple, in the order of the return statement.  For a number,
\* 360 - degrees(2*pi - radians(north)) is north itself.
correctSrfAzimuthDforNorth(north, srfAzimuthD) ==
    IF north = None THEN <<srfAzimuthD, <<0>>, TRUE, "ok">>
    ELSE IF ~IsVector(north) /\ (NumLt(north, <<0>>) \/ NumLt(<<360>>, north))
    THEN <<None, FALSE, "Please input north angle value from 0 to 360.">>
    ELSE LET northDeg == IF IsVector(north) THEN NumSub(<<360, 1>>, Float(north[2]))
                         ELSE Float(north)
             sum == NumAdd(northDeg, srfAzimuthD)
         IN  <<IF NumLt(<<360>>, sum) THEN NumSub(sum, <<360>>) ELSE sum,
               northDeg, TRUE, "ok">>

(***************************************************************************)
(* The physics collaborator (lb_photovoltaics): a black box to this        *)
(* component.  It is a function of its arguments; physics.model chooses    *)
(* between a flat response and one that follows the hour of the day, and   *)
(* physics.failHoy is the hour of year at which a call raises (0: never).  *)
(***************************************************************************)
NRELsunPosition(physics, latitude, longitude, timeZone, year, month, day, hour) ==
    IF physics.model = "flat" THEN <<30, 180, 60>>
    ELSE LET altitude == 90 - 15 * Abs(12 - hour)
         IN  <<90 - altitude, (15 * hour) % 360, altitude>>

\* Epoa, Eb, Ed_sky, Eground, AOI_R
POAirradiance(sunZenithD, sunAzimuthD, srfTiltD, srfAzimuthD, DNI, DHI, albedo) ==
    LET Eb == IF sunZenithD < 90 THEN RatOfInt(DNI) ELSE RatOfInt(0)
        Ed_sky == RatOfInt(DHI)
        Eground == RatMul(albedo, RatOfInt(DNI + DHI))
    IN  <<RatAdd(RatAdd(Eb, Ed_sky), Eground), Eb, Ed_sky, Eground, sunZenithD>>

\* Tm, Tcell, Pac
pvwatts(nameplateDCpowerRating, DCtoACderateFactor, AOI_R, Epoa, Eb, Ed_sky, Eground, moduleType, Ta, ws, DNI, DHI) ==
    <<RatOfInt(Ta + DNI), RatOfInt(Ta + DNI + 1),
      RatMul(RatMul(AsRat(nameplateDCpowerRating), AsRat(DCtoACderateFactor)),
             RatDivInt(Epoa, 1000))>>

(***************************************************************************)
(* radiation_ACenergy (SimulationEngine)                                   *)
(***************************************************************************)
\* the boundaries of a leap year
hoyForMonths_LeapYear ==
    <<0, 744, 1440, 2184, 2904, 3648, 4368, 5112, 5856, 6576, 7320, 8040, 8784, 9000>>
hoyForMonths == <<0, 744, 1416, 2160, 2880, 3624, 4344, 5088, 5832, 6552, 7296, 8016, 8760, 9000>>
numberOfDaysInThatMonth_LeapYear == <<31, 29, 31, 30, 31, 30, 31, 31, 30, 31, 30, 31>>
numberOfDaysInThatMonth == <<31, 28, 31, 30, 31, 30, 31, 31, 30, 31, 30, 31>>
NumberOfBuckets == 12

\* "hoy >= hoyForMonths[k]+1 and hoy <= hoyForMonths[k+1]" for the k-th item (k from 1):
\* the second operand is read only when the first holds
InMonthRange(hoy, k) == hoy >= hoyForMonths[k] + 1 /\ hoy <= hoyForMonths[k + 1]

\* the buckets (1-based) the inner loop of lines 546-549 appends the hour to
BucketsOf(hoy) == {k \in 1..(Len(hoyForMonths) - 1) : InMonthRange(hoy, k)}

\* the inner loop reads past hoyForMonths or appends past the 12 buckets
LookupRaises(hoy) ==
    \E k \in 1..Len(hoyForMonths) :
        /\ hoy >= hoyForMonths[k] + 1
        /\ \/ k + 1 > Len(hoyForMonths)
           \/ hoy <= hoyForMonths[k + 1] /\ k > NumberOfBuckets

RECURSIVE SumRange(_, _, _)
SumRange(s, lo, hi) ==
    IF lo > hi THEN <<0>>
    ELSE IF lo = hi THEN s[lo]
    ELSE LET mid == (lo + hi) \div 2
         IN  NumAdd(SumRange(s, lo, mid), SumRange(s, mid + 1, hi))
\* a sum that stops one item early
PySum_DropLast(s) == NumAdd(<<0>>, SumRange(s, 1, Len(s) - 1))
\* sum(s): 0 + s[0] + s[1] + ...; the arithmetic is exact, so the grouping is immaterial
PySum(s) == NumAdd(<<0>>, SumRange(s, 1, Len(s)))

PerHourHeader(locationName, dataType, units) ==
    <<"key:location/dataType/units/frequency/startsAt/endsAt", locationName, dataType,
      units, "Hourly", <<1, 1, 1>>, <<12, 31, 24>>>>

EngineRaise(e) ==
    [raise |-> e, ACenergyPerHour |-> None, ACenergyPerMonth |-> None, ACenergyPerYear |-> None,
     beamRadiationPerHour |-> None, diffuseRadiationPerHour |-> None,
     reflectedRadiationPerHour |-> None, totalRadiationPerHour |-> None,
     monthsOfYearSumEpoa |-> None, sumEpoaPerYear |-> None,
     averageDailyRadiationPerMonth |-> None, averageDailyRadiationPerYear |-> None,
     moduleTemperaturePerHour |-> None, cellTemperaturePerHour |-> None,
     monthsOfYearHoyEpoa |-> None, monthsOfYearHoyPac |-> None]

\* the cell temperature goes to the module temperatures too
HourAppends_CellTemperatureTwice(poa, pv) ==
    [Epoa |-> NumDiv(poa[1], <<1000>>), Eb |-> NumDiv(poa[2], <<1000>>),
     Ed_sky |-> NumDiv(poa[3], <<1000>>), Eground |-> NumDiv(poa[4], <<1000>>),
     Tm |-> pv[2], Tcell |-> pv[2], Pac |-> pv[3]]

\* lines 535-545: the values the hour appends to the per-hour lists
HourAppends(poa, pv) ==
    [Epoa |-> NumDiv(poa[1], <<1000>>), Eb |-> NumDiv(poa[2], <<1000>>),
     Ed_sky |-> NumDiv(poa[3], <<1000>>), Eground |-> NumDiv(poa[4], <<1000>>),
     Tm |-> pv[1], Tcell |-> pv[2], Pac |-> pv[3]]

\* line 534
HourPower(poa, nameplateDCpowerRating, DCtoACderateFactor, moduleType, Ta, ws, DNI, DHI) ==
    HourAppends(poa, pvwatts(nameplateDCpowerRating, DCtoACderateFactor, poa[5], poa[1],
                             poa[2], poa[3], poa[4], moduleType, Ta, ws, DNI, DHI))

\* line 533
HourIrradiance(sun, srfTiltD, srfAzimuthD, albedo, nameplateDCpowerRating, DCtoACderateFactor, moduleType, Ta, ws, DNI, DHI) ==
    HourPower(POAirradiance(sun[1], sun[2], srfTiltD, srfAzimuthD, DNI, DHI, albedo),
              nameplateDCpowerRating, DCtoACderateFactor, moduleType, Ta, ws, DNI, DHI)

\* the sun's position is asked for hours[i] itself
HourOfLoop_HourNotShifted(physics, loc, years, months, days, hours, nameplateDCpowerRating, DCtoACderateFactor, srfTiltD, srfAzimuthD, moduleType, dryBulbTemperature, windSpeed, directNormalRadiation, diffuseHorizontalRadiation, albedo, i) ==
    HourIrradiance(NRELsunPosition(physics, loc.latitude, loc.longitude, loc.timeZone,
                                   years[i], months[i], days[i], hours[i]),
                   srfTiltD, srfAzimuthD, albedo, nameplateDCpowerRating,
                   DCtoACderateFactor, moduleType, dryBulbTemperature[i], windSpeed[i],
                   directNormalRadiation[i], diffuseHorizontalRadiation[i])

\* what one round of the loop of lines 531-545 computes for index i (1-based)
HourOfLoop(physics, loc, years, months, days, hours, nameplateDCpowerRating, DCtoACderateFactor, srfTiltD, srfAzimuthD, moduleType, dryBulbTemperature, windSpeed, directNormalRadiation, diffuseHorizontalRadiation, albedo, i) ==
    HourIrradiance(NRELsunPosition(physics, loc.latitude, loc.longitude, loc.timeZone,
                                   years[i], months[i], days[i], hours[i] - 1),
                   srfTiltD, srfAzimuthD, albedo, nameplateDCpowerRating,
                   DCtoACderateFactor, moduleType, dryBulbTemperature[i], windSpeed[i],
                   directNormalRadiation[i], diffuseHorizontalRadiation[i])

\* one of the per-hour lists, without its header
PerHour(hour, field) == List([i \in 1..Len(hour) |-> hour[i][field]])

\* lines 546-549: the 12 month lists of the per-hour values x
MonthLists(x, buckets) ==
    List([k \in 1..NumberOfBuckets |->
            Compact(x, [i \in 1..Len(x) |-> k \in buckets[i]])])

\* [sum(month) for month in months]
MonthSums(monthLists) == List([k \in 1..Len(monthLists) |-> PySum(monthLists[k])])

\* lines 553-555
DailyAverages(monthsOfYearSumEpoa) ==
    List([g \in 1..Len(monthsOfYearSumEpoa) |->
            NumDiv(monthsOfYearSumEpoa[g], <<numberOfDaysInThatMonth[g]>>)])

\* lines 552-563
EngineReturn(locationName, hour, monthsOfYearHoyEpoa, monthsOfYearHoyPac, monthsOfYearSumEpoa, averageDailyRadiationPerMonth, ACenergyPerMonth) ==
    [raise |-> NoException,
     ACenergyPerHour |->
        PerHourHeader(locationName, "AC power output", "kWh") \o PerHour(hour, "Pac"),
     ACenergyPerMonth |-> ACenergyPerMonth,
     ACenergyPerYear |-> PySum(ACenergyPerMonth),
     beamRadiationPerHour |->
        PerHourHeader(locationName, "POA beam irradiance", "kWh/m2") \o PerHour(hour, "Eb"),
     diffuseRadiationPerHour |->
        PerHourHeader(locationName, "POA diffuse irradiance", "kWh/m2")
        \o PerHour(hour, "Ed_sky"),
     reflectedRadiationPerHour |->
        PerHourHeader(locationName, "POA ground reflected irradiance", "kWh/m2")
        \o PerHour(hour, "Eground"),
     totalRadiationPerHour |->
        PerHourHeader(locationName, "Total POA irradiance", "kWh/m2") \o PerHour(hour, "Epoa"),
     monthsOfYearSumEpoa |-> monthsOfYearSumEpoa,
     sumEpoaPerYear |-> PySum(monthsOfYearSumEpoa),
     averageDailyRadiationPerMonth |-> averageDailyRadiationPerMonth,
     averageDailyRadiationPerYear |-> NumDiv(PySum(averageDailyRadiationPerMonth), <<12>>),
     moduleTemperaturePerHour |->
        PerHourHeader(locationName, "Module temperature", "C") \o PerHour(hour, "Tm"),
     cellTemperaturePerHour |->
        PerHourHeader(locationName, "Cell temperature", "C") \o PerHour(hour, "Tcell"),
     monthsOfYearHoyEpoa |-> monthsOfYearHoyEpoa,
     monthsOfYearHoyPac |-> monthsOfYearHoyPac]

\* lines 551-560, from the month lists
Aggregate(locationName, hour, monthsOfYearHoyEpoa, monthsOfYearHoyPac) ==
    EngineReturn(locationName, hour, monthsOfYearHoyEpoa, monthsOfYearHoyPac,
                 MonthSums(monthsOfYearHoyEpoa), DailyAverages(MonthSums(monthsOfYearHoyEpoa)),
                 MonthSums(monthsOfYearHoyPac))

\* lines 546-560, from the loop's per-hour values
Bucketed(locationName, hour, buckets) ==
    Aggregate(locationName, hour, MonthLists(PerHour(hour, "Epoa"), buckets),
              MonthLists(PerHour(hour, "Pac"), buckets))

radiation_ACenergy(physics, loc, years, months, days, hours, HOYsArg, nameplateDCpowerRating, DCtoACderateFactor, srfTiltD, srfAzimuthD, moduleType, dryBulbTemperature, windSpeed, directNormalRadiation, diffuseHorizontalRadiation, albedo) ==
    IF \E x \in {years, months, days, hours, dryBulbTemperature, windSpeed,
                 directNormalRadiation, diffuseHorizontalRadiation} : Len(x) < Len(HOYsArg)
    THEN EngineRaise("IndexError")
    ELSE IF physics.failHoy \in 1..Len(HOYsArg)
    THEN EngineRaise("PhysicsError")
    ELSE IF \E i \in 1..Len(HOYsArg) : LookupRaises(HOYsArg[i])
    THEN EngineRaise("IndexError")
    ELSE Bucketed(loc.locationName,
                  List([i \in 1..Len(HOYsArg) |->
                          HourOfLoop(physics, loc, years, months, days, hours,
                                     nameplateDCpowerRating, DCtoACderateFactor, srfTiltD,
                                     srfAzimuthD, moduleType, dryBulbTemperature, windSpeed,
                                     directNormalRadiation, diffuseHorizontalRadiation,
                                     albedo, i)]),
                  List([i \in 1..Len(HOYsArg) |-> BucketsOf(HOYsArg[i])]))

(***************************************************************************)
(* The script (lines 601-660): one action per call.                        *)
(***************************************************************************)
Unset == None

\* an uncaught exception ends the script
Crash(e) ==
    /\ pc' = "crashed"
    /\ exception' = e

\* print printMsg; ghenv.Component.AddRuntimeMessage(level, printMsg)
Report(msg) ==
    /\ pc' = "reported"
    /\ printMsg' = msg
    /\ printed' = [text |-> msg, warning |-> TRUE]

\* lines 602-607 and 646-660: the release check and "if _PVsurface:"
Start ==
    /\ pc = "start"
    /\ IF input.ladybug = "missing" THEN Report("First please let the Ladybug fly...")
       ELSE IF input.ladybug = "incompatible"
       THEN Report("You need a newer version of Ladybug to use this component.")
       ELSE IF input._PVsurface = None
       THEN Report("Please input a Surface (not a polysurface) to _PVsurface")
       ELSE pc' = "PVsurfaceInputData" /\ UNCHANGED <<printMsg, printed>>
    /\ UNCHANGED <<input, addZero, exception, surface, location, weather, annual, cond,
                   angles, result>>

\* lines 608-611
CallPVsurfaceInputData ==
    /\ pc = "PVsurfaceInputData"
    /\ LET r == PVsurfaceInputData(input._PVsurface, input.PVsurfacePercent_,
                                   NumMul(input.unitConversionFactor, input.unitConversionFactor),
                                   input.DCtoACderateFactor_, input.moduleActiveAreaPercent_,
                                   input.moduleType_, input.moduleEfficiency_)
       IN  IF r.raise # NoException
           THEN Crash(r.raise) /\ UNCHANGED <<surface, printMsg, printed>>
           ELSE /\ surface' = r
                /\ IF r.validPVsurfaceData
                   THEN pc' = "getLocationData" /\ printMsg' = r.printMsg /\ UNCHANGED printed
                   ELSE Report(r.printMsg)
                /\ UNCHANGED exception
    /\ UNCHANGED <<input, addZero, location, weather, annual, cond, angles, result>>

\* lines 612-613
CallGetLocationData ==
    /\ pc = "getLocationData"
    /\ LET r == getLocationData(input._location)
       IN  /\ location' = r
           /\ IF r.validLocationData
              THEN pc' = "getWeatherData" /\ printMsg' = r.printMsg /\ UNCHANGED printed
              ELSE Report(r.printMsg)
    /\ UNCHANGED <<input, addZero, exception, surface, weather, annual, cond, angles, result>>

\* lines 614-615
CallGetWeatherData ==
    /\ pc = "getWeatherData"
    /\ LET r == getWeatherData(input._dryBulbTemperature, input._windSpeed,
                               input._directNormalRadiation, input._diffuseHorizontalRadiation,
                               input._modelYear, input.albedo_)
       IN  IF r.raise # NoException
           THEN Crash(r.raise) /\ UNCHANGED <<weather, printMsg, printed>>
           ELSE /\ weather' = r
                /\ IF r.validWeatherData
                   THEN pc' = "checkAnnualHourlyInputData" /\ printMsg' = r.printMsg
                        /\ UNCHANGED printed
                   ELSE Report(r.printMsg)
                /\ UNCHANGED exception
    /\ UNCHANGED <<input, addZero, surface, location, annual, cond, angles, result>>

\* lines 616-617: the returned tuple is unpacked by position
CallCheckAnnualHourlyInputData ==
    /\ pc = "checkAnnualHourlyInputData"
    /\ LET r == checkAnnualHourlyInputData(input.annualHourlyData_)
       IN  /\ annual' = [validAnnualHourlyData |-> r[1], annualHourlyDataLists |-> r[2],
                         annualHourlyDataListsEpwNames |-> r[3], printMsg |-> r[4]]
           /\ IF Truthy(r[1])
              THEN pc' = "checkConditionalStatement" /\ printMsg' = r[4].v /\ UNCHANGED printed
              ELSE Report(r[4].v)
    /\ UNCHANGED <<input, addZero, exception, surface, location, weather, cond, angles, result>>

\* lines 618-622 and 629-633
CallCheckConditionalStatement ==
    /\ pc = "checkConditionalStatement"
    /\ LET r == checkConditionalStatement(input.conditionalStatement_,
                    annual.annualHourlyDataLists.v, annual.annualHourlyDataListsEpwNames.v,
                    <<weather.Ta, weather.ws, weather.DNI, weather.DHI>>, addZero)
       IN  IF r.raise # NoException
           THEN Crash(r.raise) /\ UNCHANGED <<cond, printMsg, printed>>
           ELSE /\ cond' = r
                /\ IF ~r.validConditionalStatement THEN Report(r.printMsg)
                   ELSE IF input._runIt
                   THEN pc' = "srfAzimuthAngle" /\ printMsg' = r.printMsg /\ UNCHANGED printed
                   ELSE /\ pc' = "idle"
                        /\ printMsg' = r.printMsg
                        /\ printed' = [text |-> "All inputs are ok. Please set the _runIt to True",
                                       warning |-> FALSE]
                /\ UNCHANGED exception
    /\ UNCHANGED <<input, addZero, surface, location, weather, annual, angles, result>>

NoAngles ==
    [srfAzimuthD |-> Unset, surfaceTiltDCalculated |-> Unset, correctedSrfAzimuthD |-> Unset,
     northDeg |-> Unset, validNorth |-> Unset, srfTiltD |-> Unset]

\* line 623
CallSrfAzimuthAngle ==
    /\ pc = "srfAzimuthAngle"
    /\ LET r == srfAzimuthAngle(input.PVsurfaceAzimuthAngle_, surface.PVsurfaceInputType,
                                input._PVsurface, location.latitude)
       IN  IF r.raise # NoException
           THEN Crash(r.raise) /\ UNCHANGED angles
           ELSE /\ angles' = [angles EXCEPT !.srfAzimuthD = r.srfAzimuthD,
                                            !.surfaceTiltDCalculated = r.surfaceTiltDCalculated]
                /\ pc' = "correctSrfAzimuthDforNorth"
                /\ UNCHANGED exception
    /\ UNCHANGED <<input, addZero, printMsg, printed, surface, location, weather, annual, cond,
                   result>>

\* line 624: four names are unpacked from the returned tuple
CallCorrectSrfAzimuthDforNorth ==
    /\ pc = "correctSrfAzimuthDforNorth"
    /\ LET r == correctSrfAzimuthDforNorth(input.north_, angles.srfAzimuthD)
       IN  IF Len(r) # 4
           THEN Crash("ValueError") /\ UNCHANGED <<angles, printMsg>>
           ELSE /\ angles' = [angles EXCEPT !.correctedSrfAzimuthD = r[1], !.northDeg = r[2],
                                            !.validNorth = r[3]]
                /\ printMsg' = r[4]
                /\ pc' = "srfTiltAngle"
                /\ UNCHANGED exception
    /\ UNCHANGED <<input, addZero, printed, surface, location, weather, annual, cond, result>>

\* line 625
CallSrfTiltAngle ==
    /\ pc = "srfTiltAngle"
    /\ LET r == srfTiltAngle(input.PVsurfaceTiltAngle_, angles.surfaceTiltDCalculated,
                             surface.PVsurfaceInputType, input._PVsurface, location.latitude)
       IN  IF r.raise # NoException
           THEN Crash(r.raise) /\ UNCHANGED angles
           ELSE /\ angles' = [angles EXCEPT !.srfTiltD = r.srfTiltD]
                /\ pc' = "radiation_ACenergy"
                /\ UNCHANGED exception
    /\ UNCHANGED <<input, addZero, printMsg, printed, surface, location, weather, annual, cond,
                   result>>

\* line 626: the filtered series are the engine's weather
CallRadiation_ACenergy ==
    /\ pc = "radiation_ACenergy"
    /\ LET sub == cond.weatherPerHourDataConditionalStatementSubLists
           r == radiation_ACenergy(input.physics, location, weather.yearsHOY, weather.monthsHOY,
                    weather.daysHOY, weather.hoursHOY, weather.HOYs,
                    surface.nameplateDCpowerRating, surface.DCtoACderateFactor,
                    angles.srfTiltD, angles.correctedSrfAzimuthD, surface.moduleType,
                    sub[1], sub[2], sub[3], sub[4], weather.albedo)
       IN  IF r.raise # NoException
           THEN Crash(r.raise) /\ UNCHANGED result
           ELSE /\ result' = r
                /\ pc' = "printOutput"
                /\ UNCHANGED exception
    /\ UNCHANGED <<input, addZero, printMsg, printed, surface, location, weather, annual, cond,
                   angles>>

\* lines 627-628: moduleTypesL[moduleType] needs an int
CallPrintOutput ==
    /\ pc = "printOutput"
    /\ IF ~IsInt(surface.moduleType)
       THEN Crash("TypeError") /\ UNCHANGED printed
       ELSE /\ pc' = "done"
            /\ printed' = [text |-> "PVsurface component results successfully completed!",
                           warning |-> FALSE]
            /\ UNCHANGED exception
    /\ UNCHANGED <<input, addZero, printMsg, surface, location, weather, annual, cond, angles,
                   result>>

(***************************************************************************)
(* Inputs                                                                  *)
(***************************************************************************)
NoGeom == [azimuth |-> None, tiltCalculated |-> None, tilt |-> None]
\* the literal "<area>"
AreaInput(a) ==
    [kind |-> "str", faces |-> 0, area |-> None, asFloat |-> a, hasKw |-> FALSE,
     kwFloat |-> None, geom |-> NoGeom]
\* the literal "<kw> kw"
RatingInput(kw) ==
    [kind |-> "str", faces |-> 0, area |-> None, asFloat |-> None, hasKw |-> TRUE,
     kwFloat |-> kw, geom |-> NoGeom]
\* a literal that float() rejects
TextInput(hasKw) ==
    [kind |-> "str", faces |-> 0, area |-> None, asFloat |-> None, hasKw |-> hasKw,
     kwFloat |-> None, geom |-> NoGeom]
BrepInput(faces, area, geom) ==
    [kind |-> "brep", faces |-> faces, area |-> area, asFloat |-> None, hasKw |-> FALSE,
     kwFloat |-> None, geom |-> geom]

LocationAt(latitude) ==
    [ok |-> TRUE, latitude |-> latitude, longitude |-> <<-122, 1>>, timeZone |-> <<-8, 1>>,
     elevation |-> <<10, 1>>, locationName |-> "Site"]

\* an "Import epw" output of pattern p
Epw(p) == RawSeries(p, WithHeaderLen, TRUE)

\* an auxiliary dataset: its header names the data type
AuxEpw(p, name) == [Epw(p) EXCEPT ![3] = name]

BaseInput ==
    [ladybug |-> "ok",
     _PVsurface |-> AreaInput(<<100, 1>>),
     PVsurfacePercent_ |-> <<100, 1>>,
     DCtoACderateFactor_ |-> None,
     moduleActiveAreaPercent_ |-> <<90, 1>>,
     moduleType_ |-> None,
     moduleEfficiency_ |-> <<15, 1>>,
     unitConversionFactor |-> <<1, 1>>,
     _location |-> LocationAt(<<45, 1>>),
     _dryBulbTemperature |-> Epw("uniform"),
     _windSpeed |-> Epw("uniform"),
     _directNormalRadiation |-> Epw("uniform"),
     _diffuseHorizontalRadiation |-> Epw("uniform"),
     _modelYear |-> Epw("year"),
     albedo_ |-> None,
     annualHourlyData_ |-> <<>>,
     conditionalStatement_ |-> None,
     _runIt |-> TRUE,
     PVsurfaceAzimuthAngle_ |-> None,
     PVsurfaceTiltAngle_ |-> None,
     north_ |-> None,
     physics |-> [model |-> "flat", failHoy |-> 0]]

InitWith(inputs, addZeros) ==
    /\ input \in inputs
    /\ addZero \in addZeros
    /\ pc = "start"
    /\ printMsg = ""
    /\ exception = NoException
    /\ surface = Unset
    /\ location = Unset
    /\ weather = Unset
    /\ annual = Unset
    /\ cond = Unset
    /\ angles = NoAngles
    /\ result = Unset
    /\ printed = [text |-> "", warning |-> FALSE]

(***************************************************************************)
(* The aligner on every combination of raw series                          *)
(***************************************************************************)
\* raw lists as they can arrive: nothing, an empty string, the 8760 values, the
\* values behind the header, and lists of other lengths
RawLists(p) ==
    {<<>>, <<EmptyString>>, RawSeries(p, HoursPerYear, FALSE), Epw(p),
     RawSeries(p, WrongLen, TRUE), RawSeries(p, HoursPerYear - 1, FALSE),
     RawSeries(p, WithHeaderLen + 1, TRUE)}

AlignerInputs ==
    {[BaseInput EXCEPT !._dryBulbTemperature = ta, !._windSpeed = w,
                       !._directNormalRadiation = dni, !._diffuseHorizontalRadiation = dhi,
                       !._modelYear = y, !.albedo_ = al] :
        ta \in RawLists("varied"), w \in {Epw("uniform"), RawSeries("uniform", WrongLen, TRUE)},
        dni \in {Epw("halfday"), RawSeries("halfday", HoursPerYear, FALSE), <<>>},
        dhi \in {Epw("uniform"), RawSeries("uniform", WithHeaderLen + 1, TRUE)},
        y \in RawLists("year"), al \in {None, <<1, 2>>, <<2>>}}

InitAligner == InitWith(AlignerInputs, {TRUE})
NextAligner ==
    \/ Start
    \/ CallPVsurfaceInputData
    \/ CallGetLocationData
    \/ CallGetWeatherData
SpecAligner == InitAligner /\ [][NextAligner]_vars

(***************************************************************************)
(* The filter on every combination of statement and auxiliary datasets, in *)
(* both of its modes                                                       *)
(***************************************************************************)
FilterBase ==
    [BaseInput EXCEPT !._dryBulbTemperature = Epw("varied"),
                      !._directNormalRadiation = Epw("halfday")]

OneDataset == AuxEpw("varied", HeaderItem(3))
FilterDatasets ==
    {<<>>, OneDataset, OneDataset \o AuxEpw("halfday", HeaderItem(3) - 100),
     Repeat(OneDataset, Len(Letters) + 1)}

FilterStatements ==
    {None, Some(<<"a", ">", "2">>), Some(<<"A", ">", "2">>), Some(<<"a", ">", "25">>),
     Some(<<"a", ">">>), Some(<<"c", ">", "2">>), Some(<<"a", "<", "b">>),
     Some(<<"1", "/", "a", ">", "0">>)}

FilterInputs ==
    {[FilterBase EXCEPT !.annualHourlyData_ = d, !.conditionalStatement_ = c] :
        d \in FilterDatasets, c \in FilterStatements}
    \cup {[FilterBase EXCEPT !.annualHourlyData_ = Repeat(OneDataset, 9),
                             !.conditionalStatement_ =
                                Some(<<"a", "<=", "b", "<=", "c", "<=", "d", "<=", "e", "<=",
                                       "f", "<=", "g", "<=", "h", "<=", "i">>)]}

InitFilter == InitWith(FilterInputs, BOOLEAN)
NextFilter ==
    \/ Start
    \/ CallPVsurfaceInputData
    \/ CallGetLocationData
    \/ CallGetWeatherData
    \/ CallCheckAnnualHourlyInputData
    \/ CallCheckConditionalStatement
SpecFilter == InitFilter /\ [][NextFilter]_vars

(***************************************************************************)
(* The whole script on a base run and on runs that differ from it in one   *)
(* or two inputs                                                           *)
(***************************************************************************)
WithWeather(i, p) ==
    [i EXCEPT !._dryBulbTemperature = Epw(p), !._windSpeed = Epw(p),
              !._directNormalRadiation = Epw(p), !._diffuseHorizontalRadiation = Epw(p)]

Geom(az, calc, tilt) == [azimuth |-> az, tiltCalculated |-> calc, tilt |-> tilt]

MainInputs ==
    {BaseInput}
    \cup {[WithWeather(BaseInput, pm[1]) EXCEPT !.physics.model = pm[2]] :
            pm \in {<<"varied", "flat">>, <<"seasonal", "diurnal">>}}
    \cup {[BaseInput EXCEPT !.physics.failHoy = h] : h \in {1, HoursPerYear}}
    \cup {[BaseInput EXCEPT !.ladybug = l] : l \in {"missing", "incompatible"}}
    \cup {[BaseInput EXCEPT !._runIt = FALSE]}
    \cup {[BaseInput EXCEPT !._PVsurface = srf] :
            srf \in {None, TextInput(FALSE), TextInput(TRUE), RatingInput(<<4, 1>>),
                     BrepInput(2, <<50, 1>>, Geom(<<90, 1>>, None, <<30, 1>>)),
                     BrepInput(1, <<50, 1>>, Geom(<<90, 1>>, None, <<30, 1>>)),
                     BrepInput(1, <<50, 1>>, Geom(<<270, 1>>, <<90, 1>>, <<90, 1>>)),
                     BrepInput(1, <<50, 1>>, Geom(<<135, 1>>, <<45, 1>>, <<45, 1>>))}}
    \cup {[BaseInput EXCEPT !.moduleEfficiency_ = et[1], !.moduleType_ = et[2]] :
            et \in {<<<<20>>, <<1>>>>, <<None, <<2, 1>>>>}}
    \cup {[BaseInput EXCEPT !._location = l] :
            l \in {None, [LocationAt(<<0, 1>>) EXCEPT !.ok = FALSE], LocationAt(<<0, 1>>),
                   LocationAt(<<-10, 1>>)}}
    \cup {[BaseInput EXCEPT !._windSpeed = w] :
            w \in {<<>>, RawSeries("uniform", WrongLen, TRUE)}}
    \cup {[WithWeather(BaseInput, "varied") EXCEPT !.annualHourlyData_ = d,
                                                   !.conditionalStatement_ = c] :
            d \in {<<>>, AuxEpw("varied", HeaderItem(3))},
            c \in {None, Some(<<"a", ">", "2">>), Some(<<"a", ">">>),
                   Some(<<"1", "/", "a", ">", "0">>)}}
    \cup {[BaseInput EXCEPT !.north_ = n, !.PVsurfaceAzimuthAngle_ = at[1],
                            !.PVsurfaceTiltAngle_ = at[2]] :
            n \in {<<30>>, <<400>>}, at \in {<<None, None>>, <<<<350>>, <<200>>>>}}
    \cup {[BaseInput EXCEPT !.north_ = <<0>>, !.PVsurfaceAzimuthAngle_ = <<360>>,
                            !.PVsurfaceTiltAngle_ = <<30>>]}

Init == InitWith(MainInputs, {TRUE})
Next ==
    \/ Start
    \/ CallPVsurfaceInputData
    \/ CallGetLocationData
    \/ CallGetWeatherData
    \/ CallCheckAnnualHourlyInputData
    \/ CallCheckConditionalStatement
    \/ CallSrfAzimuthAngle
    \/ CallCorrectSrfAzimuthDforNorth
    \/ CallSrfTiltAngle
    \/ CallRadiation_ACenergy
    \/ CallPrintOutput
Spec == Init /\ [][Next]_vars

(***************************************************************************)
(* The resolver alone (lines 602-611): the surface literals and geometries  *)
(* against the five optional parameters, each absent, below, at and above   *)
(* the ends of its range, as an integer and as a float.                     *)
(***************************************************************************)
ResolverInputs ==
    LET base == <<<<50, 1>>, <<9, 10>>, <<80, 1>>, <<1>>, <<20, 1>>>>
        values == <<{None, <<-1>>, <<0>>, <<50>>, <<100>>, <<100, 1>>, <<101>>},
                    {None, <<-1, 10>>, <<0>>, <<1, 2>>, <<1>>, <<11, 10>>},
                    {None, <<-5>>, <<0>>, <<0, 1>>, <<90>>, <<100>>, <<150, 1>>},
                    {None, <<-1>>, <<0>>, <<3, 2>>, <<2, 1>>, <<3>>, <<4>>},
                    {None, <<-1>>, <<0>>, <<0, 1>>, <<15>>, <<15, 1>>, <<100>>, <<101>>}>>
        vectors == {base, <<None, None, None, None, None>>,
                    <<<<50, 1>>, None, None, None, <<15, 1>>>>,
                    <<<<50>>, None, None, None, <<15>>>>,
                    <<<<101>>, <<2>>, <<101>>, <<4>>, <<101>>>>,
                    <<<<100>>, <<1>>, <<100>>, <<3>>, <<100>>>>}
                   \cup UNION {{[base EXCEPT ![k] = v] : v \in values[k]} : k \in 1..5}
        surfaces == {AreaInput(<<100, 1>>), RatingInput(<<4, 1>>),
                     BrepInput(1, <<50, 1>>, Geom(<<90, 1>>, None, <<30, 1>>))}
    IN  {[BaseInput EXCEPT !._PVsurface = srf, !.PVsurfacePercent_ = v[1],
                           !.DCtoACderateFactor_ = v[2], !.moduleActiveAreaPercent_ = v[3],
                           !.moduleType_ = v[4], !.moduleEfficiency_ = v[5]] :
            srf \in surfaces, v \in vectors}
        \cup {[BaseInput EXCEPT !._PVsurface = srf] :
                srf \in {None, TextInput(FALSE), TextInput(TRUE),
                         BrepInput(2, <<50, 1>>, Geom(<<90, 1>>, None, <<30, 1>>))}}
        \cup {[BaseInput EXCEPT !._PVsurface = AreaInput(<<100, 1>>),
                                !.unitConversionFactor = <<1, 1000>>]}

InitResolver == InitWith(ResolverInputs, {TRUE})
NextResolver ==
    \/ Start
    \/ CallPVsurfaceInputData
SpecResolver == InitResolver /\ [][NextResolver]_vars

(***************************************************************************)
(* The script up to the auxiliary datasets (lines 602-616): flat lists     *)
(* made of series with and without header, complete and not.               *)
(***************************************************************************)
AnnualInputs ==
    LET with(p, name) == AuxEpw(p, name)
        without(p) == RawSeries(p, HoursPerYear, FALSE)
        a == with("varied", HeaderItem(3))
        b == with("halfday", HeaderItem(3) - 100)
        c == with("seasonal", HeaderItem(3) - 200)
    IN  {[BaseInput EXCEPT !.annualHourlyData_ = d] :
            d \in {<<>>, a, b, c, a \o b, b \o a, a \o c, c \o a, b \o c,
                   a \o b \o c, c \o b \o a,
                   without("varied"), without("halfday"),
                   without("varied") \o without("halfday"),
                   a \o without("varied"), without("varied") \o a,
                   SubSeq(a, 1, WithHeaderLen - 1), a \o <<0>>,
                   SubSeq(a, 1, HeaderLen), SubSeq(a, 1, WrongLen),
                   SubSeq(a \o b, 1, 2 * WithHeaderLen - 1), a \o b \o <<0>>}}

InitAnnual == InitWith(AnnualInputs, {TRUE})
NextAnnual ==
    \/ Start
    \/ CallPVsurfaceInputData
    \/ CallGetLocationData
    \/ CallGetWeatherData
    \/ CallCheckAnnualHourlyInputData
SpecAnnual == InitAnnual /\ [][NextAnnual]_vars

(***************************************************************************)
(* Properties of the aligner                                               *)
(***************************************************************************)
RawWeather ==
    <<input._dryBulbTemperature, input._windSpeed, input._directNormalRadiation,
      input._diffuseHorizontalRadiation, input._modelYear>>

\* getWeatherData has been called
AlignerCalled == pc \notin {"start", "PVsurfaceInputData", "getLocationData", "getWeatherData"}
AlignerReached == AlignerCalled /\ location # Unset /\ location.validLocationData

Aligned == <<weather.Ta, weather.ws, weather.DNI, weather.DHI, weather.yearsHOY>>

\* C1: every raw series of length 8760 is used as is, one of length 8767 loses exactly
\* its first 7 items, and a series of any other non-zero length makes the aligner fail
\* with a reported error (validWeatherData false, nothing simulated); on success every
\* returned series has length 8760.
C1_SeriesLengthContract ==
    (AlignerReached /\ \A j \in 1..5 : ~NotPlugged(RawWeather[j])) =>
        IF \E j \in 1..5 : Len(RawWeather[j]) \notin {HoursPerYear, WithHeaderLen}
        THEN /\ pc = "reported"
             /\ weather # Unset
             /\ ~weather.validWeatherData
             /\ printed.warning
        ELSE /\ weather # Unset
             /\ weather.validWeatherData
             /\ \A j \in 1..5 :
                  /\ Len(Aligned[j]) = HoursPerYear
                  /\ Aligned[j] = IF Len(RawWeather[j]) = HoursPerYear THEN RawWeather[j]
                                  ELSE SubSeq(RawWeather[j], 8, WithHeaderLen)

DaysInMonth == <<31, 28, 31, 30, 31, 30, 31, 31, 30, 31, 30, 31>>
RECURSIVE CumulativeHours(_)
\* the hours of the first m months of a non-leap year
CumulativeHours(m) == IF m = 0 THEN 0 ELSE CumulativeHours(m - 1) + 24 * DaysInMonth[m]
MonthContaining(h) ==
    CHOOSE m \in 1..12 : CumulativeHours(m - 1) < h /\ h <= CumulativeHours(m)
MonthTable == [h \in 1..8760 |-> MonthContaining(h)] @@ <<>>
\* the month whose cumulative non-leap range contains hour of year h
MonthOfHour(h) == MonthTable[h]

WeatherValid == weather # Unset /\ weather.validWeatherData

\* C2: the calendar has 8760 entries; entry i has hour of year i, the month whose
\* cumulative non-leap range contains i, the day of month counted from 1 within that
\* month, and the hour of day cycling 1..24.
C2_CalendarIndex ==
    WeatherValid =>
        /\ Len(weather.HOYs) = 8760 /\ Len(weather.monthsHOY) = 8760
        /\ Len(weather.daysHOY) = 8760 /\ Len(weather.hoursHOY) = 8760
        /\ \A i \in 1..8760 :
             /\ weather.HOYs[i] = i
             /\ weather.monthsHOY[i] = MonthOfHour(i)
             /\ weather.daysHOY[i] = ((i - 1 - CumulativeHours(MonthOfHour(i) - 1)) \div 24) + 1
             /\ weather.daysHOY[i] \in 1..DaysInMonth[MonthOfHour(i)]
             /\ weather.hoursHOY[i] = ((i - 1) % 24) + 1

\* the aligner succeeded on a series it had to strip and one it took as is
C2_Witness ==
    /\ WeatherValid
    /\ Len(input._dryBulbTemperature) = WithHeaderLen
    /\ Len(input._directNormalRadiation) = HoursPerYear

(***************************************************************************)
(* Properties of the engine                                                *)
(***************************************************************************)
\* radiation_ACenergy has returned
EngineReturned == result # Unset

HourlyPac == StripHeader(result.ACenergyPerHour)
HourlyEpoa == StripHeader(result.totalRadiationPerHour)
\* the hours of year of month m
HoursOfMonth(m) == (CumulativeHours(m - 1) + 1)..CumulativeHours(m)
\* the values of the per-hour list x at the hours of month m
MonthSlice(x, m) == SubSeq(x, CumulativeHours(m - 1) + 1, CumulativeHours(m))
Total(x) == SumRange(x, 1, Len(x))
UniformPac == \A h \in 1..HoursPerYear : HourlyPac[h] = HourlyPac[1]

\* C3: every hour of year 1..8760 goes to exactly one of the 12 month buckets, the
\* month whose range in the table 0, 744, ..., 8760 contains it, which is the month
\* the calendar gives the hour; the lookup never reads past the table or appends past
\* the 12 buckets; month m receives 24 x daysInMonth[m] hours, so with a uniform
\* hourly AC power p the monthly energy is 24 x daysInMonth[m] x p and the annual
\* energy 8760 x p.
C3_MonthBucketing ==
    /\ ~(pc = "crashed" /\ exception = "IndexError")
    /\ EngineReturned =>
         /\ Len(HourlyPac) = 8760 /\ Len(HourlyEpoa) = 8760
         /\ Len(result.monthsOfYearHoyPac) = 12 /\ Len(result.monthsOfYearHoyEpoa) = 12
         /\ \A h \in 1..8760 :
              /\ BucketsOf(weather.HOYs[h]) = {MonthOfHour(h)}
              /\ ~LookupRaises(weather.HOYs[h])
              /\ weather.monthsHOY[h] = MonthOfHour(h)
         /\ \A m \in 1..12 :
              /\ Len(result.monthsOfYearHoyPac[m]) = 24 * DaysInMonth[m]
              /\ result.monthsOfYearHoyPac[m] = MonthSlice(HourlyPac, m)
              /\ result.monthsOfYearHoyEpoa[m] = MonthSlice(HourlyEpoa, m)
         /\ UniformPac =>
              /\ \A m \in 1..12 :
                   NumEq(result.ACenergyPerMonth[m],
                         NumMul(<<24 * DaysInMonth[m]>>, HourlyPac[1]))
              /\ NumEq(result.ACenergyPerYear, NumMul(<<8760>>, HourlyPac[1]))

\* a run with a uniform, non-zero hourly AC power has finished
C3_Witness == EngineReturned /\ pc = "done" /\ UniformPac /\ ~NumIsZero(HourlyPac[1])

\* C4: the monthly POA sum is the sum of the hourly POA values bucketed in the month,
\* the monthly AC energy the sum of their hourly AC values; each annual total is the
\* sum of its 12 monthly entries, hence the sum of all 8760 hourly values.
C4_MonthlyAndAnnualSums ==
    EngineReturned =>
        /\ Len(result.monthsOfYearSumEpoa) = 12 /\ Len(result.ACenergyPerMonth) = 12
        /\ \A m \in 1..12 :
             /\ NumEq(result.monthsOfYearSumEpoa[m], Total(result.monthsOfYearHoyEpoa[m]))
             /\ NumEq(result.monthsOfYearSumEpoa[m], Total(MonthSlice(HourlyEpoa, m)))
             /\ NumEq(result.ACenergyPerMonth[m], Total(result.monthsOfYearHoyPac[m]))
             /\ NumEq(result.ACenergyPerMonth[m], Total(MonthSlice(HourlyPac, m)))
        /\ NumEq(result.sumEpoaPerYear, Total(result.monthsOfYearSumEpoa))
        /\ NumEq(result.ACenergyPerYear, Total(result.ACenergyPerMonth))
        /\ NumEq(result.sumEpoaPerYear, Total(HourlyEpoa))
        /\ NumEq(result.ACenergyPerYear, Total(HourlyPac))

\* a run whose hourly values differ from hour to hour has finished with non-zero totals
C4_Witness ==
    /\ EngineReturned
    /\ \E h \in 1..HoursPerYear : HourlyEpoa[h] # HourlyEpoa[1]
    /\ ~NumIsZero(result.sumEpoaPerYear)
    /\ ~NumIsZero(result.ACenergyPerYear)

\* C5: there are 12 monthly daily averages, in month order; the m-th is the monthly
\* POA sum divided by the non-leap day count of month m, and the yearly average is the
\* sum of the 12 monthly averages divided by 12.
C5_DailyAverages ==
    EngineReturned =>
        /\ Len(result.averageDailyRadiationPerMonth) = 12
        /\ \A m \in 1..12 :
             RatMul(AsRat(result.averageDailyRadiationPerMonth[m]), RatOfInt(DaysInMonth[m]))
                = AsRat(result.monthsOfYearSumEpoa[m])
        /\ RatMul(AsRat(result.averageDailyRadiationPerYear), RatOfInt(12))
             = AsRat(Total(result.averageDailyRadiationPerMonth))

\* a run in which the yearly average is not the annual sum divided by 365
C5_Witness ==
    /\ EngineReturned
    /\ AsRat(result.averageDailyRadiationPerYear)
         # RatDivInt(AsRat(result.sumEpoaPerYear), 365)

(***************************************************************************)
(* Properties of the filter                                                *)
(***************************************************************************)
\* checkConditionalStatement has been called
FilterCalled ==
    /\ annual # Unset
    /\ Truthy(annual.validAnnualHourlyData)
    /\ pc # "checkConditionalStatement"
\* ... and has returned
FilterReturned == FilterCalled /\ cond # Unset

HasStatement == input.conditionalStatement_ # None
Datasets == annual.annualHourlyDataLists.v
FilterIn == <<weather.Ta, weather.ws, weather.DNI, weather.DHI>>
FilterOut == cond.weatherPerHourDataConditionalStatementSubLists

\* the single letters the statement refers to, whatever their case
LettersReferenced ==
    {j \in 1..Len(Letters) :
        \E q \in 1..Len(input.conditionalStatement_[1]) :
            Lower(input.conditionalStatement_[1])[q] = Letters[j]}
GateOpen ==
    \/ ~HasStatement /\ Len(Datasets) = 0
    \/ HasStatement /\ Len(Datasets) > 0 /\ Cardinality(LettersReferenced) = Len(Datasets)

\* the statement as the filter executes it, and its value at hour h
Executed ==
    IF HasStatement THEN Indexed(Lower(input.conditionalStatement_[1])) ELSE <<"True">>
ValueAt(h) == ExecStatement(Executed, HourVals(Datasets, h), FALSE)
FailsAt(h) == ValueAt(h).err # NoException
HoldsAt(h) == ~FailsAt(h) /\ ValueAt(h).val # 0

\* C6: with no statement and no auxiliary dataset the filter succeeds, every output
\* series equals its input series item for item, whether or not rejected hours are
\* replaced by 0, and the restated condition is "No condition".
C6_IdentityLaw ==
    (FilterCalled /\ ~HasStatement /\ Len(Datasets) = 0) =>
        /\ cond # Unset
        /\ cond.validConditionalStatement
        /\ FilterOut = FilterIn
        /\ cond.conditionalStatementForFinalPrint = <<"No condition">>

\* the filter has returned from a call without statement and datasets that was to
\* drop the rejected hours
C6_Witness ==
    /\ FilterReturned /\ ~HasStatement /\ Len(Datasets) = 0
    /\ ~addZero
    /\ Len(FilterIn[1]) = HoursPerYear

\* C7: the statement is evaluated only when there is neither statement nor dataset,
\* or a statement, a dataset and as many distinct letters as datasets; datasets
\* without statement and a statement without datasets are reported as a missing
\* input, another number of letters than datasets as a mismatch; a failing call
\* returns neither filtered series nor restated condition.
C7_InputGate ==
    FilterCalled =>
        /\ cond # Unset
        /\ (cond.hoursExecuted > 0) <=> GateOpen
        /\ (~HasStatement /\ Len(Datasets) > 0) =>
              cond.printMsg
                = "Please supply conditionalStatement_ for inputted annualHourlyData_ data."
        /\ (HasStatement /\ Len(Datasets) = 0) =>
              cond.printMsg
                = "Please supply annualHourlyData_ data for inputted conditionalStatement_."
        /\ (HasStatement /\ Len(Datasets) > 0
              /\ Cardinality(LettersReferenced) # Len(Datasets)) =>
              cond.printMsg
                = "The number of a,b,c... variables does not correspond to the number of annualHourlyData_ lists."
        /\ ~GateOpen =>
              /\ ~cond.validConditionalStatement
              /\ pc = "reported"
              /\ FilterOut = None
              /\ cond.conditionalStatementForFinalPrint = None

\* C8: when rejected hours are replaced by 0, every output series has its input's
\* value at the hours where the statement holds and 0 at the others, all series at
\* the same hours, and keeps its 8760 items.
C8_AddZeroMasking ==
    (FilterReturned /\ addZero /\ cond.validConditionalStatement) =>
        /\ Len(FilterOut) = Len(FilterIn)
        /\ \A s \in 1..Len(FilterIn) :
             /\ Len(FilterOut[s]) = HoursPerYear
             /\ \A h \in 1..HoursPerYear :
                  FilterOut[s][h] = IF HoldsAt(h) THEN FilterIn[s][h] ELSE 0

\* the filter has masked some hours of a series and passed others
C8_Witness ==
    /\ FilterReturned /\ addZero /\ cond.validConditionalStatement
    /\ \E h \in 1..24 : HoldsAt(h) /\ FilterOut[1][h] # 0
    /\ \E h \in 1..24 : ~HoldsAt(h) /\ FilterIn[1][h] # 0 /\ FilterOut[1][h] = 0

\* the first hour at which the statement fails, 0 if it never does
FirstFailingHour == FirstTrue([h \in 1..HoursPerYear |-> FailsAt(h)], 1, HoursPerYear)

\* C9: when the statement fails to evaluate at some hour, the filter stops at the
\* first such hour and reports the statement as incorrect; it returns no filtered
\* series, not even the part filled so far, and nothing is simulated.
C9_EvaluationErrors ==
    (FilterCalled /\ GateOpen /\ FirstFailingHour # 0) =>
        /\ cond # Unset
        /\ ~cond.validConditionalStatement
        /\ cond.hoursExecuted = FirstFailingHour
        /\ FilterOut = None
        /\ cond.conditionalStatementForFinalPrint = None
        /\ cond.printMsg = "Your conditionalStatement_ is incorrect."
        /\ pc = "reported" /\ printed.warning
        /\ result = Unset

\* the statement held at an hour before the one at which it failed
C9_Witness ==
    /\ FilterReturned /\ GateOpen
    /\ FirstFailingHour > 1
    /\ HoldsAt(1)
    /\ pc = "reported"

\* the statement refers to the first letters, one for each dataset
FirstLettersOnly ==
    /\ HasStatement
    /\ Len(Datasets) \in 1..Len(Letters)
    /\ LettersReferenced = 1..Len(Datasets)

LiteralOf(v) == CHOOSE t \in DOMAIN LiteralValue : LiteralValue[t] = v

\* the statement with every letter replaced by its dataset's value at hour h
Substituted(h) ==
    LET stmt == Lower(input.conditionalStatement_[1])
    IN  [q \in 1..Len(stmt) |->
            IF IsLetter(stmt[q]) THEN LiteralOf(Datasets[LetterIndex(stmt[q])][h])
            ELSE stmt[q]]

\* the value of the substituted statement at every hour
DenotedPerHour ==
    List([h \in 1..HoursPerYear |-> ExecStatement(Substituted(h), <<>>, FALSE)])

\* the filter's outputs are the inputs under the mask pass; a filter that drops the
\* rejected hours and keeps none has no output
MaskedBy(pass) ==
    IF ~addZero /\ \A h \in 1..HoursPerYear : ~pass[h]
    THEN ~cond.validConditionalStatement
    ELSE /\ cond.validConditionalStatement
         /\ \A s \in 1..Len(FilterIn) :
               IF addZero
               THEN \A h \in 1..HoursPerYear :
                       FilterOut[s][h] = IF pass[h] THEN FilterIn[s][h] ELSE 0
               ELSE FilterOut[s] = Compact(FilterIn[s], pass)

Binding(denoted) ==
    (\A h \in 1..HoursPerYear : denoted[h].err = NoException) =>
        /\ cond # Unset
        /\ MaskedBy(Passing(denoted))

\* C20: with n datasets, 1 to 26, and a statement that refers to the first n
\* letters, the k-th letter stands for the k-th dataset at every hour and the mask
\* at an hour is the value of the statement with each letter replaced by its
\* dataset's value at that hour; no variable of the filter itself changes what a
\* letter stands for.
C20_PositionalBinding ==
    (FilterCalled /\ FirstLettersOnly) => Binding(DenotedPerHour)

\* C20 for at most 8 datasets: the statement has no letter from i on
C20_FirstEightLetters ==
    (FilterCalled /\ FirstLettersOnly /\ Len(Datasets) <= 8) => Binding(DenotedPerHour)

\* the statement's value at every hour
ValuePerHour == List([h \in 1..HoursPerYear |-> ValueAt(h)])

IsPassingHour(vals, h) == vals[h].err = NoException /\ vals[h].val # 0

\* the hours at which the statement holds, in increasing order
PassingHours(vals) ==
    SelectSeq([h \in 1..HoursPerYear |-> h], LAMBDA h : IsPassingHour(vals, h))

EmptyResultMessage == "No annualHourlyData_ coresponds to conditionalStatement_."

\* the outputs of a filter that drops the rejected hours, kept being the passing hours
Compacted(kept) ==
    IF kept = <<>>
    THEN /\ ~cond.validConditionalStatement
         /\ cond.printMsg = EmptyResultMessage
         /\ FilterOut = None
         /\ pc = "reported"
    ELSE /\ cond.validConditionalStatement
         /\ Len(FilterOut) = Len(FilterIn)
         /\ \A s \in 1..Len(FilterIn) :
               /\ Len(FilterOut[s]) = Len(kept)
               /\ \A j \in 1..Len(kept) : FilterOut[s][j] = FilterIn[s][kept[j]]

Evaluated(vals) == \A h \in 1..HoursPerYear : vals[h].err = NoException

CompactionOf(vals) ==
    Evaluated(vals) =>
        /\ cond # Unset
        /\ IF addZero
           THEN cond.validConditionalStatement /\ cond.printMsg # EmptyResultMessage
           ELSE Compacted(PassingHours(vals))

\* C21: a filter that drops the rejected hours returns, for every series, the
\* input's values at the hours where the statement holds, in hour order, so all
\* series have as many items as hours pass; when no hour passes it fails with the
\* empty-result message and returns no series.  A filter that replaces the rejected
\* hours by 0 never fails that way, even when no hour passes.
C21_Compaction ==
    (FilterCalled /\ GateOpen) => CompactionOf(ValuePerHour)

\* rejected hours were dropped, the first hour among them, and others were kept
C21_Witness ==
    /\ FilterReturned /\ GateOpen /\ ~addZero /\ HasStatement
    /\ cond.validConditionalStatement
    /\ Len(FilterOut[1]) \in 1..(HoursPerYear - 1)
    /\ FilterOut[1][1] # FilterIn[1][1]

\* no hour passed and the rejected hours were replaced by 0
C21_WitnessNoHourPasses ==
    /\ FilterReturned /\ GateOpen /\ addZero /\ HasStatement
    /\ cond.validConditionalStatement
    /\ \A h \in 1..HoursPerYear : FilterOut[1][h] = 0
    /\ \E h \in 1..24 : FilterIn[1][h] # 0

(***************************************************************************)
(* Properties of the angles                                                *)
(***************************************************************************)
\* srfAzimuthAngle has been called
AzimuthCalled ==
    /\ FilterReturned /\ cond.validConditionalStatement /\ input._runIt
    /\ pc # "srfAzimuthAngle"

HemisphereDefault == IF NumLt(<<0>>, location.latitude) THEN <<180>> ELSE <<0>>

\* C10: at every latitude, 0 included, an azimuth input within [0, 360] is used as it
\* is; one outside it, or none with a surface that is not geometry, gives 180 north of
\* the equator and 0 otherwise; none with a geometry surface gives the geometry's
\* azimuth.  An azimuth is produced in every case.
C10_AzimuthResolved ==
    AzimuthCalled =>
        /\ angles.srfAzimuthD # Unset
        /\ angles.srfAzimuthD =
             IF input.PVsurfaceAzimuthAngle_ # None
             THEN IF NumLt(input.PVsurfaceAzimuthAngle_, <<0>>)
                     \/ NumLt(<<360>>, input.PVsurfaceAzimuthAngle_)
                  THEN HemisphereDefault
                  ELSE input.PVsurfaceAzimuthAngle_
             ELSE IF surface.PVsurfaceInputType = "brep"
             THEN input._PVsurface.geom.azimuth
             ELSE HemisphereDefault

\* srfTiltAngle has been called
TiltCalled == AzimuthCalled /\ angles.northDeg # Unset /\ pc # "srfTiltAngle"

\* the tilt the azimuth step handed on is one of the special cases 0, 90, 180
TiltAlreadyCalculated ==
    /\ angles.surfaceTiltDCalculated # NeedsToBeCalculated
    /\ \E v \in {0, 90, 180} : NumEq(angles.surfaceTiltDCalculated, <<v>>)

\* the tilt the rules of C11 give
ExpectedTilt ==
    IF input.PVsurfaceTiltAngle_ # None
    THEN IF NumLt(input.PVsurfaceTiltAngle_, <<0>>)
            \/ NumLt(<<180>>, input.PVsurfaceTiltAngle_)
         THEN <<0>>
         ELSE input.PVsurfaceTiltAngle_
    ELSE IF TiltAlreadyCalculated THEN angles.surfaceTiltDCalculated
    ELSE IF surface.PVsurfaceInputType = "brep" THEN input._PVsurface.geom.tilt
    ELSE NumAbs(location.latitude)

\* C11: a tilt input outside [0, 180] gives 0 and one within it is used as it is,
\* whatever the surface; without a tilt input, a tilt of 0, 90 or 180 from the azimuth
\* step is reused, otherwise a geometry surface gets the geometry's tilt and any other
\* surface abs(latitude).  Whatever the azimuth step handed on, a tilt is produced and
\* lies in [0, 180].
C11_TiltResolved ==
    TiltCalled =>
        /\ angles.srfTiltD # Unset
        /\ angles.srfTiltD = ExpectedTilt
        /\ ~NumLt(angles.srfTiltD, <<0>>)
        /\ ~NumLt(<<180>>, angles.srfTiltD)

\* the rules of C11 where the azimuth step handed on no tilt or one of 0, 90, 180
C11_SpecialTiltsOnly ==
    (TiltCalled /\ (input.PVsurfaceTiltAngle_ # None
                      \/ angles.surfaceTiltDCalculated = NeedsToBeCalculated
                      \/ TiltAlreadyCalculated)) =>
        /\ angles.srfTiltD # Unset
        /\ angles.srfTiltD = ExpectedTilt
        /\ ~NumLt(angles.srfTiltD, <<0>>)
        /\ ~NumLt(<<180>>, angles.srfTiltD)

\* correctSrfAzimuthDforNorth has been called
NorthCalled ==
    /\ AzimuthCalled /\ angles.srfAzimuthD # Unset
    /\ pc # "correctSrfAzimuthDforNorth"

NorthIsNumber == input.north_ # None /\ ~IsVector(input.north_)

NorthInRange ==
    NorthIsNumber /\ ~NumLt(input.north_, <<0>>) /\ ~NumLt(<<360>>, input.north_)

\* x mod 360 for 0 <= x <= 720
Mod360(x) == IF NumLt(x, <<360>>) THEN x ELSE NumSub(x, <<360>>)

\* C12: without a north the offset is 0 and the azimuth is handed on as it is; with a
\* north n that is a number in [0, 360] the azimuth handed on is (n + r) mod 360 for
\* the raw azimuth r; the azimuth handed on is at least 0 and less than 360.
C12_NorthCorrection ==
    (NorthCalled /\ (input.north_ = None \/ NorthInRange)) =>
        /\ angles.correctedSrfAzimuthD # Unset
        /\ input.north_ = None =>
              /\ NumIsZero(angles.northDeg)
              /\ angles.correctedSrfAzimuthD = angles.srfAzimuthD
        /\ NorthInRange =>
              NumEq(angles.correctedSrfAzimuthD,
                    Mod360(NumAdd(input.north_, angles.srfAzimuthD)))
        /\ ~NumLt(angles.correctedSrfAzimuthD, <<0>>)
        /\ NumLt(angles.correctedSrfAzimuthD, <<360>>)

\* C12 with the sum taken as it is when it is exactly 360
C12_WrapAbove360 ==
    (NorthCalled /\ (input.north_ = None \/ NorthInRange)) =>
        /\ angles.correctedSrfAzimuthD # Unset
        /\ input.north_ = None =>
              /\ NumIsZero(angles.northDeg)
              /\ angles.correctedSrfAzimuthD = angles.srfAzimuthD
        /\ NorthInRange =>
              LET sum == NumAdd(input.north_, angles.srfAzimuthD)
              IN  NumEq(angles.correctedSrfAzimuthD,
                        IF NumEq(sum, <<360>>) THEN sum ELSE Mod360(sum))
        /\ ~NumLt(angles.correctedSrfAzimuthD, <<0>>)
        /\ ~NumLt(<<360>>, angles.correctedSrfAzimuthD)

\* C13: a north that is a number outside [0, 360] makes the north correction fail;
\* its message is printed as a warning, no exception escapes, and nothing is
\* simulated.
C13_InvalidNorth ==
    (NorthCalled /\ NorthIsNumber /\ ~NorthInRange) =>
        /\ exception = NoException
        /\ pc = "reported" /\ printed.warning
        /\ printed.text = "Please input north angle value from 0 to 360."
        /\ angles.srfTiltD = Unset
        /\ result = Unset

(***************************************************************************)
(* Properties of the resolver                                              *)
(***************************************************************************)
\* PVsurfaceInputData has been called
ResolverCalled ==
    /\ input.ladybug = "ok" /\ input._PVsurface # None
    /\ pc \notin {"start", "PVsurfaceInputData"}

\* PVsurfaceInputData has returned validPVsurfaceData = True
ResolverSucceeded == ResolverCalled /\ surface # Unset /\ surface.validPVsurfaceData

InDomain(x, lo, hi) == x # None /\ ~NumLt(x, <<lo>>) /\ ~NumLt(<<hi>>, x)

\* the returned value r of input x: x if it is in [lo, hi], the default otherwise
ResolvedAs(r, x, lo, hi, default) ==
    /\ IF InDomain(x, lo, hi) THEN r = x ELSE NumEq(r, default)
    /\ InDomain(r, lo, hi)

\* C14: when the resolver succeeds, each of the five parameters is returned as it was
\* given if it lies in its range, ends included, and as its default otherwise (100,
\* 0.85, 90, 0, 15), so each returned parameter lies in its range.
C14_Defaults ==
    ResolverSucceeded =>
        /\ ResolvedAs(surface.PVsurfacePercent, input.PVsurfacePercent_, 0, 100, <<100>>)
        /\ ResolvedAs(surface.DCtoACderateFactor, input.DCtoACderateFactor_, 0, 1, Rat(85, 100))
        /\ ResolvedAs(surface.moduleActiveAreaPercent, input.moduleActiveAreaPercent_,
                      0, 100, <<90>>)
        /\ ResolvedAs(surface.moduleType, input.moduleType_, 0, 3, <<0>>)
        /\ ResolvedAs(surface.moduleEfficiency, input.moduleEfficiency_, 0, 100, <<15>>)

\* every parameter was given outside its range, or every one at the upper end of it
C14_Witness ==
    /\ ResolverSucceeded
    /\ \/ /\ input.PVsurfacePercent_ = <<101>> /\ input.DCtoACderateFactor_ = <<2>>
          /\ input.moduleType_ = <<4>> /\ surface.moduleType = <<0>>
       \/ /\ input.PVsurfacePercent_ = <<100>> /\ input.DCtoACderateFactor_ = <<1>>
          /\ input.moduleType_ = <<3>> /\ surface.moduleType = <<3>>

\* x / 100 as a fraction
Percent(x) == RatDivInt(AsRat(x), 100)

IsRating == input._PVsurface.kind = "str" /\ input._PVsurface.hasKw

\* the area the surface states: the literal's, or the face's
StatedArea ==
    IF input._PVsurface.kind = "brep" THEN input._PVsurface.area
    ELSE input._PVsurface.asFloat

\* the three formulas of C15 on the returned values
FormulasHold ==
    LET pct == Percent(surface.PVsurfacePercent)
        act == Percent(surface.moduleActiveAreaPercent)
        eff == Percent(surface.moduleEfficiency)
        factor == NumMul(input.unitConversionFactor, input.unitConversionFactor)
        srfArea == AsRat(surface.srfArea)
        activeArea == AsRat(surface.activeArea)
        rating == AsRat(surface.nameplateDCpowerRating)
    IN  /\ IF IsRating
           THEN /\ rating = RatMul(AsRat(input._PVsurface.kwFloat), pct)
                /\ RatMul(activeArea, eff) = rating
                /\ RatMul(srfArea, act) = activeArea
           ELSE /\ srfArea = RatMul(RatMul(AsRat(StatedArea), pct), AsRat(factor))
                /\ activeArea = RatMul(srfArea, act)
                /\ rating = RatMul(activeArea, eff)
        /\ rating = RatMul(RatMul(srfArea, act), eff)

\* a surface the formulas are about, with percentages the divisions are defined for
FormulasApply ==
    /\ ResolverCalled
    /\ \/ input._PVsurface.kind = "brep" /\ input._PVsurface.faces = 1
       \/ input._PVsurface.kind = "str" /\ input._PVsurface.asFloat # None
       \/ /\ IsRating /\ input._PVsurface.kwFloat # None
          /\ ~NumIsZero(OrDefault(input.moduleEfficiency_, <<0>>, <<100>>, <<15>>))
          /\ ~NumIsZero(OrDefault(input.moduleActiveAreaPercent_, <<0>>, <<100>>, <<90>>))

\* C15: for an area or a single face, surface area = area x percent/100 x unit
\* factor, active area = surface area x active percent/100, rating = active area x
\* efficiency/100; for a "kw" literal, rating = kW x percent/100, active area =
\* rating / (efficiency/100), surface area = active area / (active percent/100);
\* for integer, float and defaulted percentages alike.
C15_Formulas ==
    FormulasApply =>
        /\ ResolverSucceeded
        /\ FormulasHold

\* the percentages the resolver divides are all floats
FloatPercentages ==
    \A x \in {OrDefault(input.PVsurfacePercent_, <<0>>, <<100>>, <<100>>),
               OrDefault(input.moduleActiveAreaPercent_, <<0>>, <<100>>, <<90>>),
               OrDefault(input.moduleEfficiency_, <<0>>, <<100>>, <<15>>)} : ~IsInt(x)

\* the formulas of C15 where no percentage is an integer, given or defaulted
C15_FloatsOnly ==
    (FormulasApply /\ FloatPercentages) =>
        /\ ResolverSucceeded
        /\ FormulasHold

Defined(x) == x # None /\ ~NumLt(x, <<0>>)

\* C17: for every surface and all percentages within their ranges, 0 included, the
\* resolver raises no arithmetic error, and when it succeeds the surface area, the
\* active area and the rating are numbers that are not negative.
C17_DefinedValues ==
    ResolverCalled =>
        /\ exception # "ZeroDivisionError"
        /\ ResolverSucceeded =>
              /\ Defined(surface.srfArea)
              /\ Defined(surface.activeArea)
              /\ Defined(surface.nameplateDCpowerRating)

\* C17 for the surfaces given as an area or as a face
C17_AreaSurfaces ==
    (ResolverCalled /\ ~IsRating) =>
        /\ exception # "ZeroDivisionError"
        /\ ResolverSucceeded =>
              /\ Defined(surface.srfArea)
              /\ Defined(surface.activeArea)
              /\ Defined(surface.nameplateDCpowerRating)

\* a surface with more than one face, or a literal float() rejects and that is no
\* "kw" number
StructuralError ==
    \/ input._PVsurface.kind = "brep" /\ input._PVsurface.faces > 1
    \/ /\ input._PVsurface.kind = "str" /\ input._PVsurface.asFloat = None
       /\ input._PVsurface.kwFloat = None

\* C16: a surface of several faces is reported as a polysurface, and a literal that
\* is neither a number nor a number followed by "kw" as a wrong surface input; all
\* the resolver's values are None, the message is printed as a warning, no
\* exception escapes and no later stage runs.
C16_StructuralErrors ==
    (ResolverCalled /\ StructuralError) =>
        /\ exception = NoException
        /\ surface # Unset
        /\ surface = SurfaceFail(IF input._PVsurface.kind = "brep"
                                 THEN "The brep you supplied to _PVsurface is a polysurface"
                                 ELSE "Something is wrong with your PVsurface input data")
        /\ pc = "reported" /\ printed.warning /\ printed.text = surface.printMsg
        /\ location = Unset /\ weather = Unset /\ annual = Unset /\ cond = Unset
        /\ result = Unset

\* C16 for the literals without "kw" and the surfaces of several faces
C16_WithoutKw ==
    (ResolverCalled /\ StructuralError /\ ~IsRating) =>
        /\ exception = NoException
        /\ surface # Unset
        /\ ~surface.validPVsurfaceData
        /\ pc = "reported" /\ printed.warning /\ printed.text = surface.printMsg
        /\ location = Unset /\ result = Unset

(***************************************************************************)
(* Properties of the auxiliary datasets                                    *)
(***************************************************************************)
AuxCalled == annual # Unset

AuxLen == Len(input.annualHourlyData_)

AuxAccepted ==
    /\ Truthy(annual.validAnnualHourlyData)
    /\ annual.annualHourlyDataLists.t = "list"
    /\ pc # "reported"

AuxRejected ==
    /\ ~Truthy(annual.validAnnualHourlyData)
    /\ annual.annualHourlyDataLists.t # "list"
    /\ pc = "reported" /\ printed.warning
    /\ printed.text = "Your annualHourlyData_ input is not correct."
    /\ cond = Unset

\* the prepared series are the n series of the input that start every stride items,
\* each without its first skip items, in the order of the input
AuxPrepared(n, stride, skip) ==
    LET lists == annual.annualHourlyDataLists.v
    IN  /\ Len(lists) = n
        /\ \A i \in 1..n :
              /\ Len(lists[i]) = HoursPerYear
              /\ Len(lists[i]) = Len(weather.Ta)
              /\ \A h \in 1..HoursPerYear :
                    lists[i][h] = input.annualHourlyData_[(i - 1) * stride + skip + h]

\* a length that some series of 8760 and of 8767 items add up to
SeriesLengths ==
    {x * HoursPerYear + y * WithHeaderLen : x, y \in 0..3}

\* C18: an auxiliary series is accepted with 8760 items and with 8767 items, the
\* 7 header items of which are dropped; every prepared series has 8760 values, as
\* many as the weather series, in the order supplied; an input of another length is
\* rejected with a reported error and no list.
C18_AuxiliaryLengths ==
    AuxCalled =>
        /\ AuxLen = HoursPerYear => AuxAccepted /\ AuxPrepared(1, HoursPerYear, 0)
        /\ (AuxLen > 0 /\ AuxLen % WithHeaderLen = 0) =>
              AuxAccepted /\ AuxPrepared(AuxLen \div WithHeaderLen, WithHeaderLen, HeaderLen)
        /\ AuxLen \notin SeriesLengths => AuxRejected

\* C18 as the code has it: the input is accepted when it is empty or made of
\* complete series of 8767 items, header included, which are cut out in order, named
\* by their third header item and stripped of their 7 header items to 8760 values;
\* any other length, 8760 included, is rejected with a reported error and no list.
C18_CompleteSeriesOnly ==
    AuxCalled =>
        IF AuxLen % WithHeaderLen = 0
        THEN /\ AuxAccepted
             /\ AuxPrepared(AuxLen \div WithHeaderLen, WithHeaderLen, HeaderLen)
             /\ annual.annualHourlyDataListsEpwNames.v
                  = [i \in 1..(AuxLen \div WithHeaderLen) |->
                       input.annualHourlyData_[(i - 1) * WithHeaderLen + 3]]
        ELSE AuxRejected

\* three series of different values were accepted
C18_Witness ==
    /\ AuxCalled /\ AuxAccepted
    /\ Len(annual.annualHourlyDataLists.v) = 3
    /\ annual.annualHourlyDataLists.v[1] # annual.annualHourlyDataLists.v[2]
    /\ annual.annualHourlyDataLists.v[2] # annual.annualHourlyDataLists.v[3]

(***************************************************************************)
(* Properties of the script as a whole                                     *)
(***************************************************************************)
SurfaceOk == surface # Unset /\ surface.validPVsurfaceData
LocationOk == location # Unset /\ location.validLocationData
AnnualOk == annual # Unset /\ Truthy(annual.validAnnualHourlyData)
FilterOk == cond # Unset /\ cond.validConditionalStatement
AllInputsOk == SurfaceOk /\ LocationOk /\ WeatherValid /\ AnnualOk /\ FilterOk

\* the stages ran in the order of the script, each after the success of the one before
StagesInOrder ==
    /\ location # Unset => SurfaceOk
    /\ weather # Unset => LocationOk
    /\ annual # Unset => WeatherValid
    /\ cond # Unset => AnnualOk
    /\ angles # NoAngles => FilterOk
    /\ result # Unset => angles.srfTiltD # Unset

\* the message of the first stage that did not succeed, None if that stage returned
\* nothing
FirstFailureMessage ==
    IF ~SurfaceOk THEN (IF surface = Unset THEN None ELSE <<surface.printMsg>>)
    ELSE IF ~LocationOk THEN (IF location = Unset THEN None ELSE <<location.printMsg>>)
    ELSE IF ~WeatherValid THEN (IF weather = Unset THEN None ELSE <<weather.printMsg>>)
    ELSE IF ~AnnualOk THEN (IF annual = Unset THEN None ELSE <<annual.printMsg.v>>)
    ELSE IF cond = Unset THEN None ELSE <<cond.printMsg>>

\* the run has ended before the five input stages had all succeeded
EndedOnInputs == pc \in {"reported", "crashed"} /\ ~AllInputsOk

AnglesOrLater ==
    pc \in {"srfAzimuthAngle", "correctSrfAzimuthDforNorth", "srfTiltAngle",
            "radiation_ACenergy", "printOutput", "done"}

\* C19: there is a result only if surface, location, weather, auxiliary data and
\* filter have succeeded, in that order, and _runIt is true; a run that ends on a
\* failing stage has printed that stage's message as a warning and has run no later
\* stage; with _runIt false nothing from the angles on is run; when a physics call
\* fails at some hour the run has no result at all.
C19_AllOrNothing ==
    /\ StagesInOrder
    /\ result # Unset => AllInputsOk /\ input._runIt
    /\ EndedOnInputs =>
          /\ pc = "reported" /\ printed.warning
          /\ FirstFailureMessage # None => printed.text = FirstFailureMessage[1]
          /\ angles = NoAngles /\ result = Unset
    /\ ~input._runIt => ~AnglesOrLater /\ angles = NoAngles /\ result = Unset
    /\ exception = "PhysicsError" => pc = "crashed" /\ result = Unset

\* C19 for the stages that fail by returning their message
C19_ReturnedFailures ==
    /\ StagesInOrder
    /\ result # Unset => AllInputsOk /\ input._runIt
    /\ (EndedOnInputs /\ exception = NoException) =>
          /\ pc = "reported" /\ printed.warning
          /\ FirstFailureMessage # None => printed.text = FirstFailureMessage[1]
          /\ angles = NoAngles /\ result = Unset
    /\ ~input._runIt => ~AnglesOrLater /\ angles = NoAngles /\ result = Unset
    /\ exception = "PhysicsError" => pc = "crashed" /\ result = Unset

(***************************************************************************)
(* Properties of the per-hour loop                                         *)
(***************************************************************************)
\* the seven per-hour lists, in the order of their appends (lines 539-545)
PerHourLists ==
    <<result.ACenergyPerHour, result.totalRadiationPerHour, result.beamRadiationPerHour,
      result.diffuseRadiationPerHour, result.reflectedRadiationPerHour,
      result.moduleTemperaturePerHour, result.cellTemperaturePerHour>>

\* what the three physics functions give for hour of year h: the sun's position at
\* the hour of the day less 1, the irradiance from it, the power from that
ExpectedOfHour(h) ==
    LET Ta == FilterOut[1][h]
        ws == FilterOut[2][h]
        DNI == FilterOut[3][h]
        DHI == FilterOut[4][h]
        sun == NRELsunPosition(input.physics, location.latitude, location.longitude,
                               location.timeZone, weather.yearsHOY[h], MonthOfHour(h),
                               weather.daysHOY[h], (h - 1) % 24)
        poa == POAirradiance(sun[1], sun[2], angles.srfTiltD, angles.correctedSrfAzimuthD,
                             DNI, DHI, weather.albedo)
        pv == pvwatts(surface.nameplateDCpowerRating, surface.DCtoACderateFactor, poa[5],
                      poa[1], poa[2], poa[3], poa[4], surface.moduleType, Ta, ws, DNI, DHI)
    IN  <<pv[3], RatDivInt(poa[1], 1000), RatDivInt(poa[2], 1000), RatDivInt(poa[3], 1000),
          RatDivInt(poa[4], 1000), pv[1], pv[2]>>

ExpectedPerHour == List([h \in 1..HoursPerYear |-> ExpectedOfHour(h)])

\* every list is a header of 7 items and one value for each hour, in hour order
HeaderThenHours(lists, expected) ==
    \A k \in 1..Len(lists) :
        /\ Len(lists[k]) = HeaderLen + HoursPerYear
        /\ lists[k][1] = "key:location/dataType/units/frequency/startsAt/endsAt"
        /\ lists[k][2] = location.locationName
        /\ lists[k][5] = "Hourly"
        /\ \A h \in 1..HoursPerYear : NumEq(lists[k][HeaderLen + h], expected[h][k])

\* C22: the loop takes the hours of year 1..8760 in order; for each it asks the
\* sun's position for the hour of the day less 1 (0..23), the irradiance from that
\* position and the power from that irradiance, with the weather values of the
\* same hour, and appends one value to each of the seven per-hour lists, so each
\* ends as its 7-item header and 8760 values in hour order, the hours the filter
\* has set to 0 included.
C22_PerHourLoop ==
    EngineReturned =>
        /\ Len(weather.HOYs) = HoursPerYear
        /\ \A h \in 1..HoursPerYear :
              /\ weather.HOYs[h] = h
              /\ weather.hoursHOY[h] - 1 = (h - 1) % 24
        /\ \A s \in 1..4 : Len(FilterOut[s]) = HoursPerYear
        /\ HeaderThenHours(PerHourLists, ExpectedPerHour)

\* with a sun that follows the hour of the day, the beam is nil at 7 o'clock and
\* not at 8 o'clock of a day with direct radiation
C22_Witness ==
    /\ EngineReturned
    /\ input.physics.model = "diurnal"
    /\ \E h \in 1..(HoursPerYear - 1) :
          /\ weather.hoursHOY[h] = 7
          /\ FilterOut[3][h] # 0 /\ FilterOut[3][h] = FilterOut[3][h + 1]
          /\ NumIsZero(result.beamRadiationPerHour[HeaderLen + h])
          /\ ~NumIsZero(result.beamRadiationPerHour[HeaderLen + h + 1])

\* the filter has set hours to 0 and the lists have their 8760 values
C22_WitnessMaskedHours ==
    /\ EngineReturned /\ HasStatement
    /\ \E h \in 1..24 : ~HoldsAt(h) /\ FilterIn[1][h] # 0 /\ FilterOut[1][h] = 0
    /\ Len(result.ACenergyPerHour) = HeaderLen + HoursPerYear

====
